---- MODULE Spec2Model ----
(***************************************************************************)
(* Feedback submission of the Financial News Analyzer.                     *)
(*                                                                         *)
(* FeedbackService (infrastructure/services/feedback_service.py) keeps a   *)
(* Google Sheets client made at construction and a CSV file path; save()   *)
(* validates the three fields, runs a diagnostic section, tries the        *)
(* spreadsheet and falls back to the CSV file.  GitHubFeedbackService      *)
(* (github_feedback_service.py) is a separate object that save() never     *)
(* calls.  The remote services, the secrets store and the file system are  *)
(* the environment: each call to them either succeeds or raises.           *)
(*                                                                         *)
(* Specifications: Spec (the constructor and save(), request by request),  *)
(* SpecLive (Spec with a spreadsheet service that may never answer, under  *)
(* fairness), SpecDir (Spec with the data directory removed at any         *)
(* moment), SpecCsv (the service without a client: every call goes to the  *)
(* file), SpecCred (construction over the shapes of the credentials),      *)
(* SpecCsvRace (_save_to_csv statement by statement, several calls at      *)
(* once), SpecSheetRace (_save_to_google_sheets request by request,        *)
(* several calls at once on one spreadsheet), SpecGitHub                   *)
(* (GitHubFeedbackService), SpecContainer (the Container class of          *)
(* infrastructure/container.py) and SpecRepo (InMemoryNewsRepository).     *)
(***************************************************************************)
EXTENDS Integers, Sequences, FiniteSets, TLC

VARIABLES
    pc,        \* "new" before FeedbackService(), "idle" between calls, else the step of
               \* __init__ or save(), "hung" in a request that is never answered
    secrets,   \* what st.secrets answers (the secrets.toml of the deployment)
    github,    \* the issue tracker: the status its create-issue POST answers, issues created
    client,    \* self.gsheet_client: TRUE when a gspread client is held, FALSE when None
    sheet,     \* the remote spreadsheet: does the "Feedback" worksheet exist, and its rows
    csv,       \* the file data/feedback.csv: does it exist, and its text
    data,      \* the dict built by save() for the call in progress
    args,      \* the (name, email, message) of the last call of save()
    outcome,   \* how the last call of save() ended
    cnt,       \* what the last call of save() did: calls per backend
    pre,       \* the spreadsheet, the file and the secrets as the last call found them
    clock,     \* datetime.utcnow(), counted in submissions
    csvLog,    \* history: the rows of the calls that save() reported as stored by CSV
    csvClean,  \* history: the file was absent at first and no append to it has failed
    built,     \* history: the secrets __init__ found and how its connection test ended
    writers,   \* the calls of _save_to_csv in progress, statement by statement
    disk,      \* history of data/feedback.csv: the rows it held at first, short writes
    gh,        \* the GitHubFeedbackService object and the last call made on it
    shown,     \* the messages the last call of save() put on the page
    container, \* the class attributes of Container and the last Container() call
    repo,      \* an InMemoryNewsRepository and the last call made on it
    sessions   \* the calls of _save_to_google_sheets running at the same time

vars == <<pc, secrets, github, client, sheet, csv, data, args, outcome, cnt, pre,
          clock, csvLog, csvClean, built, writers, disk, gh, shown, container,
          repo, sessions>>

----------------------------------------------------------------------------
(* Bounds *)

\* calls of save() that pass the validation in one behaviour
MaxSubmits == 1

\* the same for the service without a spreadsheet client, whose calls all
\* go to feedback.csv
MaxAppends == 2

\* calls of _save_to_csv running at the same time
NumWriters == 2

\* write() calls on feedback.csv of which the system accepts a part only, in
\* one behaviour
MaxShortWrites == 1

\* calls of _save_to_google_sheets running at the same time
NumSessions == 2

\* calls made on one GitHubFeedbackService
MaxGitHubCalls == 2

\* the calls made on the Container class in one run
MaxContainerCalls == 3

\* the calls made on one InMemoryNewsRepository in one run
MaxRepoCalls == 3

----------------------------------------------------------------------------
(* Texts are sequences of one-character strings, one byte each in UTF-8. *)

SP == " "

Submission(name, email, message) ==
    [name |-> name, email |-> email, message |-> message]

\* the submissions tried: plain fields, a padded name, a whitespace-only
\* message, an empty name, an empty message
Submissions ==
    {Submission(<<"a">>, <<"b">>, <<"c">>),
     Submission(<<SP, "a">>, <<"b">>, <<"c">>),
     Submission(<<"a">>, <<"b">>, <<SP>>),
     Submission(<<>>, <<"b">>, <<"c">>),
     Submission(<<"a">>, <<"b">>, <<>>)}

\* datetime.utcnow().isoformat() of the n-th instant: the digits of n
RECURSIVE IsoFormat(_)
IsoFormat(n) ==
    IF n < 10 THEN <<ToString(n)>>
    ELSE IsoFormat(n \div 10) \o <<ToString(n % 10)>>

----------------------------------------------------------------------------
(* The secrets store (st.secrets) *)

\* the key-file fields _init_google_sheets requires
RequiredFields ==
    {"type", "project_id", "private_key_id", "private_key",
     "client_email", "client_id", "auth_uri", "token_uri"}

\* A field holds "" (missing or empty), "v" (a real value), "ph" (the placeholder
\* of the secrets template) or, for private_key, "nobegin" (a key without the
\* BEGIN marker).  _init_google_sheets and save() do not test for the same
\* texts: "phinit" is a value only the constructor takes for a placeholder
\* (an e-mail with "your-project" and without "your-service"), "phsave" one
\* only save() takes for a placeholder (a project id with "your-actual" that
\* is not "your-actual-project-id", an e-mail with "your-service" and without
\* "your-project").
GoodCred == [f \in RequiredFields |-> "v"]
NoCred == [f \in RequiredFields |-> ""]

\* avail: a secrets.toml exists, so st.secrets.get answers instead of raising;
\* sheetId: GOOGLE_SHEET_ID is set; hasCred: gcp_service_account is a non-empty
\* table; ghToken: GITHUB_TOKEN is set.
NoSecretsFile ==
    [avail |-> FALSE, sheetId |-> FALSE, hasCred |-> FALSE, cred |-> NoCred,
     ghToken |-> FALSE]
EmptySecrets ==
    [avail |-> TRUE, sheetId |-> FALSE, hasCred |-> FALSE, cred |-> NoCred,
     ghToken |-> FALSE]
GitHubOnlySecrets == [EmptySecrets EXCEPT !.ghToken = TRUE]
FullSecrets ==
    [avail |-> TRUE, sheetId |-> TRUE, hasCred |-> TRUE, cred |-> GoodCred,
     ghToken |-> TRUE]
PlaceholderSecrets ==
    [FullSecrets EXCEPT !.cred = [GoodCred EXCEPT !["project_id"] = "ph"],
                        !.ghToken = FALSE]
NoSheetIdSecrets == [FullSecrets EXCEPT !.sheetId = FALSE, !.ghToken = FALSE]

\* the deployments tried
SecretsTried ==
    {NoSecretsFile, EmptySecrets, GitHubOnlySecrets, FullSecrets,
     PlaceholderSecrets, NoSheetIdSecrets}

----------------------------------------------------------------------------
(* FeedbackService.__init__ and _init_google_sheets *)

\* missing_fields: the required fields that are absent or empty
MissingFields(cred) == {f \in RequiredFields : cred[f] = ""}

\* line 76 and line 334: project_id == "your-actual-project-id"
IsTemplateProject(v) == v = "ph"

\* line 77: "your-project" in client_email
HasYourProject(v) == v \in {"ph", "phinit"}

\* line 78: "YOUR_ACTUAL_PRIVATE_KEY" in private_key
HasYourKey(v) == v = "ph"

\* line 292: "your-actual" in project_id
HasYourActual(v) == v \in {"ph", "phsave"}

\* line 297: "your-service" in client_email
HasYourService(v) == v \in {"ph", "phsave"}

\* the placeholder test looking at the project id alone
IsPlaceholder_ProjectOnly(cred) == IsTemplateProject(cred["project_id"])

\* the placeholder test of _init_google_sheets: three fields are looked at
IsPlaceholder(cred) ==
    \/ IsTemplateProject(cred["project_id"])
    \/ HasYourProject(cred["client_email"])
    \/ HasYourKey(cred["private_key"])

\* what the connection test of the constructor can end in: it passes, or it
\* raises with "not found" in the text, with "permission" in it, or with neither
TestOutcomes == {"ok", "notfound", "permission", "other"}

\* _init_google_sheets keeping the client when the connection test fails
\* with a permission error
InitGoogleSheets_KeepOnPermission(gs, s, authOk, test) ==
    IF ~gs THEN FALSE
    ELSE IF ~s.avail THEN FALSE
    ELSE IF ~s.hasCred THEN FALSE
    ELSE IF MissingFields(s.cred) # {} THEN FALSE
    ELSE IF IsPlaceholder(s.cred) THEN FALSE
    ELSE IF s.cred["private_key"] = "nobegin" THEN FALSE
    ELSE IF ~authOk THEN FALSE
    ELSE IF ~s.sheetId THEN TRUE
    ELSE test \in {"ok", "notfound", "permission"}

\* self.gsheet_client after _init_google_sheets: TRUE for a client, FALSE for
\* None.  gs is GSPREAD_AVAILABLE, authOk says that from_service_account_info,
\* refresh and gspread.authorize did not raise, test is the connection test.
InitGoogleSheets(gs, s, authOk, test) ==
    IF ~gs THEN FALSE
    ELSE IF ~s.avail THEN FALSE
    ELSE IF ~s.hasCred THEN FALSE
    ELSE IF MissingFields(s.cred) # {} THEN FALSE
    ELSE IF IsPlaceholder(s.cred) THEN FALSE
    ELSE IF s.cred["private_key"] = "nobegin" THEN FALSE
    ELSE IF ~authOk THEN FALSE
    ELSE IF ~s.sheetId THEN TRUE
    ELSE test \in {"ok", "notfound"}

\* gspread.authorize was reached and did not raise (line 135)
Authorized(gs, s, authOk) == InitGoogleSheets(gs, s, authOk, "ok")

----------------------------------------------------------------------------
(* Rows *)

\* the words of the header rows and the status of a new record ("Yeni")
Timestamp == <<"T", "i", "m", "e", "s", "t", "a", "m", "p">>
Name == <<"N", "a", "m", "e">>
Email == <<"E", "m", "a", "i", "l">>
Message == <<"M", "e", "s", "s", "a", "g", "e">>
Status == <<"S", "t", "a", "t", "u", "s">>
Yeni == <<"Y", "e", "n", "i">>

CsvHeader == <<Timestamp, Name, Email, Message>>
SheetHeader == <<Timestamp, Name, Email, Message, Status>>

CsvRow(d) == <<d.timestamp, d.name, d.email, d.message>>

\* the spreadsheet backend putting its own time in the row
SheetRow_OwnStamp(d) == << <<"9", "9">>, d.name, d.email, d.message, Yeni>>

SheetRow(d) == <<d.timestamp, d.name, d.email, d.message, Yeni>>

NoData == [timestamp |-> <<>>, name |-> <<>>, email |-> <<>>, message |-> <<>>]

\* the dict save() builds
MakeData(now, name, email, message) ==
    [timestamp |-> IsoFormat(now), name |-> name, email |-> email,
     message |-> message]

\* the test at the top of save(): `not name or not email or not message`
Rejected(name, email, message) == name = <<>> \/ email = <<>> \/ message = <<>>

----------------------------------------------------------------------------
(* The spreadsheet service *)

\* Every call on the gspread client, a spreadsheet or a worksheet is a request
\* to the service, sent without a timeout.  A request that reads is answered
\* ("ok") or raises ("raise"); one that writes can also be carried out by the
\* service and raise all the same, its answer being lost ("lost").
ReadAnswers == {"ok", "raise"}
RemoteAnswers == {"ok", "raise", "lost"}

\* ok: the request returned; sheet: the spreadsheet after it
RemoteResult(ok, sh) == [ok |-> ok, sheet |-> sh]

\* spreadsheet.worksheet("Feedback") returned the worksheet; it raises
\* WorksheetNotFound when there is none
FindWorksheet(sh, a) == sh.exists /\ a = "ok"

\* spreadsheet.add_worksheet(title="Feedback", ...): the service refuses a
\* second worksheet of that title
AddWorksheet(sh, a) ==
    IF sh.exists \/ a = "raise" THEN RemoteResult(FALSE, sh)
    ELSE RemoteResult(a = "ok", [sh EXCEPT !.exists = TRUE])

\* the row appended a second time
AppendRow_Twice(sh, row, a) ==
    IF a = "raise" THEN RemoteResult(FALSE, sh)
    ELSE RemoteResult(a = "ok", [sh EXCEPT !.rows = Append(Append(@, row), row)])

\* worksheet.append_row(row): the row goes after the rows the worksheet holds
\* when the service carries the request out
AppendRow(sh, row, a) ==
    IF a = "raise" THEN RemoteResult(FALSE, sh)
    ELSE RemoteResult(a = "ok", [sh EXCEPT !.rows = Append(@, row)])

----------------------------------------------------------------------------
(* The diagnostic section of save(), lines 213-305 *)

\* the connection test listing the worksheets a second time
DiagRequests_Relist == <<"open_by_key", "worksheets", "worksheets">>

\* the requests the connection test of lines 221-229 sends, in this order,
\* when there is a client and a sheet id; the first that raises ends the test
\* (line 233)
DiagRequests == <<"open_by_key", "worksheets">>

----------------------------------------------------------------------------
(* _save_to_google_sheets *)

\* lines 322-336, before any request: there is no client ("noclient"), the
\* lookup of the secrets raises ("raise"), there is no sheet id ("noid"), the
\* credentials are missing or the project id is the template's
\* ("placeholder"), or the spreadsheet is opened ("go")
SheetsEntry(cl, s) ==
    IF ~cl THEN "noclient"
    ELSE IF ~s.avail THEN "raise"
    ELSE IF ~s.sheetId THEN "noid"
    ELSE IF ~s.hasCred \/ IsTemplateProject(s.cred["project_id"])
         THEN "placeholder"
    ELSE "go"

\* the new worksheet left without its header row
SheetsNext_NoHeader(at, found) ==
    IF at = "sh_open" THEN "sh_list"
    ELSE IF at = "sh_list" THEN "sh_find"
    ELSE IF at = "sh_find" THEN (IF found THEN "sh_row" ELSE "sh_add")
    ELSE "sh_row"

\* the request _save_to_google_sheets sends once the request `at` returned:
\* open_by_key (line 339), worksheets (343), worksheet("Feedback") (348),
\* then the append_row of the record (369) when the worksheet was found, else
\* add_worksheet (352), the append_row of the header (357) and the record
SheetsNext(at, found) ==
    IF at = "sh_open" THEN "sh_list"
    ELSE IF at = "sh_list" THEN "sh_find"
    ELSE IF at = "sh_find" THEN (IF found THEN "sh_row" ELSE "sh_add")
    ELSE IF at = "sh_add" THEN "sh_hdr"
    ELSE "sh_row"

----------------------------------------------------------------------------
(* The text csv.writer puts in the file and what csv.reader makes of it *)

COMMA == ","
QUOTE == "\""
CR == "\r"
LF == "\n"

\* the characters that make csv.writer quote a field (QUOTE_MINIMAL): the
\* delimiter, the quote character and those of the line terminator
NeedsQuotes(field) ==
    \E i \in 1..Len(field) : field[i] \in {COMMA, QUOTE, CR, LF}

\* the quote characters of a quoted field are doubled
RECURSIVE DoubleQuotes(_)
DoubleQuotes(field) ==
    IF field = <<>> THEN <<>>
    ELSE (IF Head(field) = QUOTE THEN <<QUOTE, QUOTE>> ELSE <<Head(field)>>)
             \o DoubleQuotes(Tail(field))

WriteField(field) ==
    IF NeedsQuotes(field) THEN <<QUOTE>> \o DoubleQuotes(field) \o <<QUOTE>>
    ELSE field

RECURSIVE JoinFields(_)
JoinFields(row) ==
    IF row = <<>> THEN <<>>
    ELSE IF Len(row) = 1 THEN WriteField(row[1])
    ELSE WriteField(row[1]) \o <<COMMA>> \o JoinFields(Tail(row))

\* writer.writerow(row): the fields joined by commas, then "\r\n"; a row of
\* one empty field is written as a pair of quotes
WriteRow(row) ==
    (IF row = << <<>> >> THEN <<QUOTE, QUOTE>> ELSE JoinFields(row)) \o <<CR, LF>>

\* csv.field_size_limit(): the most characters csv.reader takes in one field
FieldSizeLimit == 131072

\* csv.reader over the text of the file (opened with newline=''), as the
\* state machine of the csv module: st is "start" at the start of a field,
\* "field" inside an unquoted field, "quoted" inside a quoted one, "quote"
\* after a quote character met inside a quoted field, "error" once the
\* reader has raised.  fresh says that the record under construction has no
\* field yet, cr that the character before was a carriage return that ended
\* a record.
ReaderStart ==
    [st |-> "start", fresh |-> TRUE, field |-> <<>>, row |-> <<>>,
     rows |-> <<>>, cr |-> FALSE]

\* the reader in the state s adds the character c to the field and goes to
\* the state st; it raises _csv.Error ("field larger than field limit")
\* when the field holds FieldSizeLimit characters already
AddChar(s, c, st) ==
    IF Len(s.field) >= FieldSizeLimit THEN [s EXCEPT !.st = "error"]
    ELSE [s EXCEPT !.st = st, !.fresh = FALSE, !.field = Append(@, c),
                   !.cr = FALSE]

\* the reader in the state s takes the character c
ReadChar(s, c) ==
    IF s.st = "error" THEN s
    ELSE IF s.cr /\ c = LF THEN [s EXCEPT !.cr = FALSE]
    ELSE IF s.st = "quoted"
    THEN (IF c = QUOTE
          THEN [s EXCEPT !.st = "quote", !.fresh = FALSE, !.cr = FALSE]
          ELSE AddChar(s, c, "quoted"))
    ELSE IF c = QUOTE /\ s.st = "start"
    THEN [s EXCEPT !.st = "quoted", !.fresh = FALSE, !.cr = FALSE]
    ELSE IF c = QUOTE /\ s.st = "quote"
    THEN AddChar(s, c, "quoted")
    ELSE IF c = COMMA
    THEN [s EXCEPT !.st = "start", !.fresh = FALSE, !.field = <<>>,
                   !.row = Append(@, s.field), !.cr = FALSE]
    ELSE IF c \in {CR, LF}
    THEN [st |-> "start", fresh |-> TRUE, field |-> <<>>, row |-> <<>>,
          rows |-> Append(s.rows, IF s.fresh /\ s.st = "start" THEN <<>>
                                  ELSE Append(s.row, s.field)),
          cr |-> c = CR]
    ELSE AddChar(s, c, "field")

ReaderStates == {"start", "field", "quoted", "quote"}

\* the reader in the state s takes the characters lo..hi of the text, in
\* order: the first half, and from the state it is in then the second; it
\* takes no more once it has raised
RECURSIVE ReadFrom(_, _, _, _)
ReadFrom(text, lo, hi, s) ==
    IF lo > hi THEN s
    ELSE IF lo = hi THEN ReadChar(s, text[lo])
    ELSE LET mid == (lo + hi) \div 2
             half == ReadFrom(text, lo, mid, s)
         IN  IF half.st \in ReaderStates
             THEN ReadFrom(text, mid + 1, hi, half)
             ELSE half

\* what list(csv.reader(f)) gives when the reader raises: no list, written
\* here as one row of one field that no text gives
ReadError == << << <<"_csv.Error">> >> >>

\* the rows the reader gives at the end of the text: the record under
\* construction is given too; none when the reader raised
ReadEnd(s) ==
    IF s.st = "error" THEN ReadError
    ELSE IF s.fresh /\ s.st = "start" THEN s.rows
    ELSE Append(s.rows, Append(s.row, s.field))

\* list(csv.reader(f)): the rows of the text
ReadRows(text) == ReadEnd(ReadFrom(text, 1, Len(text), ReaderStart))

----------------------------------------------------------------------------
(* The file object open() gives: a text layer over a buffered binary one *)

\* text: the bytes the text layer (TextIOWrapper) has pending; held: the
\* bytes in the buffer of the binary layer under it (BufferedWriter) that
\* the file has not taken yet; todo: what the call in progress on the file
\* object has still to do, in order
NewFileObject == [text |-> <<>>, held |-> <<>>, todo |-> <<>>]

\* the text layer hands its pending bytes to the binary layer when they
\* reach this size
ChunkSize == 8192

\* the size of the buffer of the binary layer: the block size the file
\* system reports for data/feedback.csv
BufferSize == 4096

\* one thing a call on the file object has to do: "write" is file.write(b)
\* of the text layer and "line" the second half of it, "hand" the text layer
\* handing its pending bytes on, "take" BufferedWriter.write(b), "flush" the
\* binary layer writing its buffer to the file, "direct" the binary layer
\* writing to the file the bytes b that are larger than its buffer
Todo(op, b) == [op |-> op, b |-> b]

\* writer.writerow: one file.write of the line
WriteLine(line) == <<Todo("write", line)>>

\* TextIOWrapper.flush(), the first thing close() does: the pending bytes
\* are handed on and the buffer is written out
FlushAll == <<Todo("hand", <<>>), Todo("flush", <<>>)>>

\* BufferedWriter.close(), which close() comes to whether the flush before
\* it raised or not: the buffer is written out (again)
FlushBuffer == <<Todo("flush", <<>>)>>

\* the file object does what it has to do up to the next write() on the
\* file, or to the end.
\* file.write(b) of the text layer: what is pending is handed on first when
\* b would take it above ChunkSize, and all of it is handed on when it has
\* reached ChunkSize with b; the pending bytes are given up before they are
\* handed on.
\* BufferedWriter.write(b): b is kept when it fits in what is free of the
\* buffer; else the buffer is written out first, b is written to the file as
\* long as what is left of it is larger than the whole buffer, and the rest
\* is kept.
RECURSIVE Run(_)
Run(fo) ==
    IF fo.todo = <<>> THEN fo
    ELSE LET t == Head(fo.todo)
             rest == Tail(fo.todo)
         IN  IF t.op = "write"
             THEN (IF fo.text # <<>> /\ Len(fo.text) + Len(t.b) > ChunkSize
                   THEN Run([fo EXCEPT !.text = <<>>,
                                       !.todo = <<Todo("take", fo.text),
                                                  Todo("line", t.b)>> \o rest])
                   ELSE Run([fo EXCEPT !.todo = <<Todo("line", t.b)>> \o rest]))
             ELSE IF t.op = "line"
             THEN (IF Len(fo.text) + Len(t.b) >= ChunkSize
                   THEN Run([fo EXCEPT !.text = <<>>,
                                       !.todo = <<Todo("take", fo.text \o t.b)>>
                                                    \o rest])
                   ELSE Run([fo EXCEPT !.text = @ \o t.b, !.todo = rest]))
             ELSE IF t.op = "hand"
             THEN (IF fo.text = <<>> THEN Run([fo EXCEPT !.todo = rest])
                   ELSE Run([fo EXCEPT !.text = <<>>,
                                       !.todo = <<Todo("take", fo.text)>>
                                                    \o rest]))
             ELSE IF t.op = "take"
             THEN (IF Len(t.b) <= BufferSize - Len(fo.held)
                   THEN Run([fo EXCEPT !.held = @ \o t.b, !.todo = rest])
                   ELSE Run([fo EXCEPT !.todo = <<Todo("flush", <<>>),
                                                  Todo("direct", t.b)>>
                                                    \o rest]))
             ELSE IF t.op = "flush"
             THEN (IF fo.held = <<>> THEN Run([fo EXCEPT !.todo = rest])
                   ELSE fo)
             ELSE (IF Len(t.b) <= BufferSize
                   THEN Run([fo EXCEPT !.held = t.b, !.todo = rest])
                   ELSE fo)

\* the bytes of the write() the file object is about to make on the file
Outgoing(fo) ==
    IF Head(fo.todo).op = "flush" THEN fo.held ELSE Head(fo.todo).b

\* a write() of which the system accepted k bytes: the part of the buffer
\* that reached the file
Torn(buf, k) == SubSeq(buf, 1, k)

\* what is left of the buffer then
Left(buf, k) == SubSeq(buf, k + 1, Len(buf))

\* the file object after the system accepted k bytes of that write(): it
\* has the rest still to write
Accepted(fo, k) ==
    IF Head(fo.todo).op = "flush" THEN [fo EXCEPT !.held = Left(@, k)]
    ELSE [fo EXCEPT !.todo = <<Todo("direct", Left(Head(fo.todo).b, k))>>
                                 \o Tail(fo.todo)]

\* the file object after that write() raised: the call on it ends there;
\* the buffer of the binary layer keeps what it held, the bytes on their way
\* to the file past the buffer are lost
Refused(fo) == [fo EXCEPT !.todo = <<>>]

\* list(csv.reader(f)) of the file
Rows(file) == ReadRows(file.text)

----------------------------------------------------------------------------
(* _save_to_csv, statement by statement *)

\* the file opened without the append mode: the buffer goes to the offset
\* the file had when it was opened, over what others wrote since
AppendWrite_AtOffset(text, buf, pos) ==
    SubSeq(text, 1, pos) \o buf \o SubSeq(text, pos + Len(buf) + 1, Len(text))

\* a write() on a file opened with mode 'a': the system puts the bytes at
\* the end the file has at that moment, whatever the offset `pos` the file
\* had when it was opened
AppendWrite(text, buf, pos) == text \o buf

\* the test made after open(), which has made the file by then
FileExists_AfterOpen(file) == TRUE

\* os.path.exists(self.csv_file), line 389
FileExists(file) == file.exists

\* what open() gives: ok when it returned, and the file as it is then
Opened(ok, file) == [ok |-> ok, file |-> file]

\* open() making the directory data/ when it is missing
OpenAppend_MakesDir(file) ==
    Opened(TRUE, [file EXCEPT !.dir = TRUE, !.exists = TRUE])

\* open(self.csv_file, 'a', ...), line 390: makes the file when it is
\* missing, and raises FileNotFoundError when the directory data/ is
OpenAppend(file) ==
    IF file.dir THEN Opened(TRUE, [file EXCEPT !.exists = TRUE])
    ELSE Opened(FALSE, file)

\* what a call of _save_to_csv holds: the statement it is at, its argument
\* `data`, its local file_exists, the offset open() found, its file object
\* f, whether an exception is on its way to the except of line 401 (failed),
\* and the value it returned.  History: linked, the file it has open is the
\* one at data/feedback.csv; dir, the directory data/ existed when open() was
\* called; opens, the open() calls made; rows, the writerow calls that
\* returned; fault, what made the first exception ("open": open() raised
\* with the directory in place, "row": the record could not be encoded,
\* "write": the system refused a write()); cuts, the write() calls of which
\* the system accepted a part only
NewWriter(d) ==
    [pc |-> "exists", data |-> d, file_exists |-> FALSE, pos |-> 0,
     f |-> NewFileObject, failed |-> FALSE, ok |-> FALSE, linked |-> FALSE,
     dir |-> FALSE, opens |-> 0, rows |-> 0, fault |-> "none", cuts |-> 0]

\* history of the file: before, the rows it held before any call; short,
\* the write() calls of which the system accepted a part only
AbsentDisk == [before |-> <<>>, short |-> 0]

OldRecord == MakeData(0, <<"o">>, <<"p">>, <<"q", COMMA, "r">>)

UsedDisk == [before |-> <<CsvHeader, CsvRow(OldRecord)>>, short |-> 0]

\* the statement the call goes on with when the one it is at returned; the
\* end of the with block closes the text layer, which flushes ("close"), and
\* then the binary layer ("shut") when that has bytes left
After(c) ==
    IF c.pc = "header" THEN "record"
    ELSE IF c.pc = "record" THEN "close"
    ELSE IF c.pc = "close" /\ c.f.held # <<>> THEN "shut"
    ELSE "done"

\* and when it raised: the with block closes the file, and close() goes on
\* to the binary layer
Caught(c) == IF c.pc \in {"header", "record"} THEN "close" ELSE After(c)

\* the call goes to the statement `to`; at the end it returns True (line
\* 400) unless an exception came to the except of line 401 (line 402)
Goes(c, to) ==
    [c EXCEPT !.pc = to,
              !.ok = (to = "done" /\ ~c.failed),
              !.linked = (to # "done" /\ c.linked)]

\* the statement the call is at returned
Returns(c) ==
    Goes([c EXCEPT !.rows = IF c.pc \in {"header", "record"} THEN @ + 1 ELSE @],
         After(c))

\* the statement the call is at raised
Raises(c, fault) ==
    Goes([c EXCEPT !.failed = TRUE,
                   !.fault = IF @ = "none" THEN fault ELSE @],
         Caught(c))

----------------------------------------------------------------------------
(* GitHubFeedbackService *)

\* what a key of the GitHub configuration holds in st.secrets: the key is
\* missing, set to the empty string, set to a real value, or set to the
\* placeholder text of a template
ConfValues == {"missing", "", "v", "ph"}

GitHubConf(avail, token, owner, name) ==
    [avail |-> avail, token |-> token, owner |-> owner, name |-> name]

\* st.secrets.get(key, default)
SecretsGet(value, default) == IF value = "missing" THEN default ELSE value

\* the fields __init__ sets
GitHubService(conf) ==
    [github_token |-> SecretsGet(conf.token, ""),
     repo_owner |-> SecretsGet(conf.owner, "enecpp"),
     repo_name |-> SecretsGet(conf.name, "FINANCIALNEWSANALYZER")]

NoService == [github_token |-> "", repo_owner |-> "", repo_name |-> ""]

\* is_configured() looking at the token alone
IsConfigured_TokenOnly(svc) == svc.github_token # ""

\* is_configured()
IsConfigured(svc) ==
    svc.github_token # "" /\ svc.repo_owner # "" /\ svc.repo_name # ""

\* what requests.post(..., timeout=10) ends in: status 201 with the issue as
\* a JSON object, status 201 with a body that is not JSON, another status, a
\* RequestException of the transport, or no answer within the timeout (the
\* Timeout that requests raises then is a RequestException)
PostAnswers == {"201", "201nojson", "403", "neterr", "timeout"}

\* what requests.get(..., timeout=10) of test_connection ends in
GetAnswers == {"200", "404", "neterr", "timeout"}

\* a POST the remote side carried out: an issue exists
Created(answer) == answer \in {"201", "201nojson"}

\* save_feedback(name, email, message): the value returned and the requests
\* sent.  response.json() raises on a body that is not JSON, inside the try.
SaveFeedback(svc, answer) ==
    IF ~IsConfigured(svc) THEN [ok |-> FALSE, posts |-> 0, gets |-> 0]
    ELSE [ok |-> answer = "201", posts |-> 1, gets |-> 0]

\* test_connection()
TestConnection(svc, answer) ==
    IF ~IsConfigured(svc) THEN [ok |-> FALSE, posts |-> 0, gets |-> 0]
    ELSE [ok |-> answer = "200", posts |-> 0, gets |-> 1]

\* a call in progress on the service, in requests.post (line 75) or in
\* requests.get (line 105): the method, and what the remote side did with
\* the request, "none" as long as it has done nothing
Waiting(op, answer) == [op |-> op, answer |-> answer]

\* the service before __init__, the last call that returned on it and the
\* calls in progress: op is the method of the last call, result what it
\* returned ("raised" for an exception), posts and gets the requests it
\* sent, answer what the remote side did, calls the calls that have
\* returned; waiting holds the calls that wait for their request (one per
\* session thread)
NoGitHubService ==
    [pc |-> "new", conf |-> GitHubConf(FALSE, "missing", "missing", "missing"),
     svc |-> NoService, op |-> "none", result |-> "none", posts |-> 0,
     gets |-> 0, answer |-> "none", calls |-> 0, waiting |-> <<>>]

\* the sequence without its i-th element
Without(seq, i) == SubSeq(seq, 1, i - 1) \o SubSeq(seq, i + 1, Len(seq))

\* the call of the method op has returned r, the remote side having done
\* `answer` with the request it sent, if it sent one
CallReturned(g, op, r, answer) ==
    [g EXCEPT !.op = op,
              !.result = IF r.ok THEN "true" ELSE "false",
              !.posts = r.posts,
              !.gets = r.gets,
              !.answer = IF r.posts + r.gets > 0 THEN answer ELSE "none",
              !.calls = @ + 1]

----------------------------------------------------------------------------
(* The messages save() puts on the page (st.info, st.success, st.error, ...) *)

\* A message is its level and what its text is made of: "text" for a fixed
\* text, "saved" for the confirmations of lines 308 and 313, "retry_later" for
\* the final error of line 317, and for the f-strings the value they insert:
\* the text of an exception, a traceback, the sheet id (its first ten
\* characters or the whole URL), the project id, the client e-mail, the title
\* of the spreadsheet, the names of the worksheets, the names of fields.
Msg(level, detail) == <<level, detail>>

\* st.error(str(e)) and st.error(traceback.format_exc()), lines 382-384
ExceptionShown == {Msg("error", "exception"), Msg("error", "traceback")}

\* line 215, and with a client line 217, then line 232 without a sheet id and
\* line 234 when the lookup of the sheet id raises
DiagFirstMessages(cl, s) ==
    {Msg("write", "text")}
        \cup (IF ~cl THEN {}
              ELSE IF ~s.avail THEN {Msg("success", "text"), Msg("error", "exception")}
              ELSE IF ~s.sheetId THEN {Msg("success", "text"), Msg("error", "text")}
              ELSE {Msg("success", "text")})

\* lines 224 and 229: what is shown once the n-th request of the connection
\* test returned
DiagAnswerMessages(n) ==
    IF DiagRequests[n] = "open_by_key" THEN {Msg("success", "sheet_title")}
    ELSE {Msg("info", "worksheet_names")}

\* lines 248-272: what is said about the credentials when there is no client
CredentialMessages(s) ==
    IF ~s.hasCred THEN {Msg("error", "text")}
    ELSE {Msg("success", "text")}
             \cup (IF MissingFields(s.cred) # {}
                   THEN {Msg("error", "field_names")}
                   ELSE {Msg("success", "text")})
             \cup (IF s.cred["private_key"] \in {"", "nobegin"}
                   THEN {Msg("error", "text")}
                   ELSE {Msg("success", "text")})

\* lines 236-278: the diagnosis without a client; the lookup of line 247
\* raises without a secrets.toml
NoClientMessages(gs, s) ==
    {Msg("error", "text"), Msg("info", "text"),
     IF gs THEN Msg("success", "text") ELSE Msg("error", "text")}
        \cup (IF ~s.avail THEN {}
              ELSE CredentialMessages(s) \cup {Msg("info", "text"), Msg("write", "text")})

\* lines 280-304: the sheet id, the project id and the client e-mail
IdentifierMessages(cl, s) ==
    (IF s.sheetId THEN {Msg("success", "sheet_id"), Msg("code", "sheet_id")}
     ELSE {Msg("error", "text")})
        \cup (IF ~s.hasCred THEN {}
              ELSE {IF HasYourActual(s.cred["project_id"])
                    THEN Msg("error", "text")
                    ELSE Msg("success", "project_id"),
                    IF HasYourService(s.cred["client_email"])
                    THEN Msg("error", "text")
                    ELSE Msg("success", "client_email")}
                       \cup (IF cl THEN {} ELSE {Msg("warning", "text")}))

\* what _save_to_google_sheets shows before its first request: lines 323,
\* 329 and 335 when it returns False at once, lines 381-383 when the lookup
\* of the secrets raises, line 338 when it opens the spreadsheet
EntryMessages(entry) ==
    IF entry = "raise" THEN ExceptionShown
    ELSE IF entry = "go" THEN {Msg("info", "sheet_id")}
    ELSE {Msg("error", "text")}

\* what _save_to_google_sheets shows once the request `at` returned: line 340,
\* line 345, lines 349 and 368 (line 351 when worksheet("Feedback") raised),
\* nothing after add_worksheet, lines 360 and 368, line 376
AnswerMessages(at, found) ==
    IF at = "sh_open" THEN {Msg("success", "text")}
    ELSE IF at = "sh_list" THEN {Msg("info", "worksheet_names")}
    ELSE IF at = "sh_find"
         THEN (IF found THEN {Msg("success", "text"), Msg("info", "text")}
               ELSE {Msg("warning", "exception")})
    ELSE IF at = "sh_add" THEN {}
    ELSE IF at = "sh_hdr" THEN {Msg("success", "text"), Msg("info", "text")}
    ELSE {Msg("success", "text")}

\* lines 307-317: what save() says at its end
FinalMessages(result) ==
    IF result = "sheets" THEN {Msg("success", "saved")}
    ELSE IF result = "csv" THEN {Msg("success", "saved"), Msg("info", "text")}
    ELSE {Msg("error", "retry_later")}

\* lines 199 and 211: the warning of the validation, the notice of a save
FirstMessages(rejected) ==
    IF rejected THEN {Msg("warning", "text")} ELSE {Msg("info", "text")}

----------------------------------------------------------------------------
(* Container: the dependency container, infrastructure/container.py *)

\* the names _initialize_services stores, in the order it stores them
InitOrder ==
    <<"sentiment_service", "news_analysis_service", "market_analysis_service",
      "news_repository", "market_repository", "get_news_use_case">>

\* and a name only register_service uses
ServiceNames == {InitOrder[i] : i \in DOMAIN InitOrder} \cup {"custom_service"}

\* what _services holds under a name: nothing, the object the n-th run of
\* _initialize_services made, the object the n-th call registered
Absent == [kind |-> "absent", n |-> 0]
BuiltBy(n) == [kind |-> "built", n |-> n]
RegisteredBy(n) == [kind |-> "registered", n |-> n]

\* the statement of _initialize_services that raises: none (0), or the k-th
\* store of InitOrder (the imports of lines 48-49 come before the fourth)
FailurePoints == 0..Len(InitOrder)

\* __new__ that makes an object at every call
ContainerNew_Always(instance, fresh) == fresh

\* __new__, lines 27-31: the object in cls._instance, made when there is none
\* (0 stands for None, `fresh` for the object super().__new__ would make)
ContainerNew(instance, fresh) == IF instance = 0 THEN fresh ELSE instance

\* _initialize_services that logs the exception and does not raise it again
InitializeServices_Swallow(services, n, k) ==
    [raised |-> FALSE,
     services |-> [x \in ServiceNames |->
                      IF \E i \in DOMAIN InitOrder :
                             InitOrder[i] = x /\ (k = 0 \/ i < k)
                      THEN BuiltBy(n) ELSE services[x]]]

\* _initialize_services, lines 39-63, as the n-th run, raising at store k:
\* the stores before k are made, the exception is logged and raised again
InitializeServices(services, n, k) ==
    [raised |-> k # 0,
     services |-> [x \in ServiceNames |->
                      IF \E i \in DOMAIN InitOrder :
                             InitOrder[i] = x /\ (k = 0 \/ i < k)
                      THEN BuiltBy(n) ELSE services[x]]]

\* __init__ that initializes at every call
NeedsInit_Always(initialized) == TRUE

\* __init__, line 35: if not self._initialized
NeedsInit(initialized) == ~initialized

\* __init__, lines 33-37.  self._initialized is read through the one
\* instance, so one flag stands for it.
ContainerInit(c, k) ==
    IF ~NeedsInit(c.initialized)
    THEN [raised |-> FALSE, ran |-> FALSE, services |-> c.services,
          initialized |-> c.initialized]
    ELSE LET r == InitializeServices(c.services, c.runs + 1, k)
         IN  [raised |-> r.raised, ran |-> TRUE, services |-> r.services,
              initialized |-> IF r.raised THEN c.initialized ELSE TRUE]

\* get_service, lines 65-81: the stored object; Absent stands for KeyError
GetService(services, name) == services[name]

\* is_available, lines 94-96
IsAvailable(services, name) == services[name] # Absent

\* register_service, lines 83-92, as the n-th call
RegisterService(services, name, n) ==
    [services EXCEPT ![name] = RegisteredBy(n)]

\* the class as it is defined, lines 23-25, before any call
NoContainer ==
    [instance |-> 0,
     initialized |-> FALSE,
     services |-> [x \in ServiceNames |-> Absent],
     calls |-> 0,                 \* calls made so far
     runs |-> 0,                  \* runs of _initialize_services so far
     returned |-> {},             \* the objects Container() has returned
     everOk |-> FALSE,            \* a run of _initialize_services succeeded
     reruns |-> 0,                \* runs started after one had succeeded
     registered |-> [x \in ServiceNames |-> Absent],
     last |-> [op |-> "none", raised |-> FALSE, ran |-> FALSE, k |-> 0],
     before |-> [initialized |-> FALSE,
                 services |-> [x \in ServiceNames |-> Absent]]]

----------------------------------------------------------------------------
(* InMemoryNewsRepository: the storage of articles by id *)

\* the id str(uuid.uuid4()) gives at its n-th call: new at every call
Uuid(n) == "uuid" \o ToString(n)

\* the ids of the two sample articles of _initialize_sample_data
SampleIds == {Uuid(1), Uuid(2)}

\* the ids callers give their articles; "" is the empty id
CallerIds == {"", "a", "b"}

\* an article: its id and, standing for the other fields, its title
News(id, title) == [id |-> id, title |-> title]
Articles == {News(id, title) : id \in CallerIds, title \in {"t1", "t2"}}

\* find_by_id's None
None == News("None", "None")

\* __init__ and _initialize_sample_data, lines 18-58
SampleStorage == [id \in SampleIds |-> News(id, "sample")]

RepoResult(ok, storage, news) == [ok |-> ok, storage |-> storage, news |-> news]

\* save that stores the article under the id it came with
Save_KeepsEmptyId(storage, news, fresh) ==
    RepoResult(TRUE,
               [id \in DOMAIN storage \cup {news.id} |->
                   IF id = news.id THEN news ELSE storage[id]],
               news)

\* save, lines 60-68: news.id is set when it is empty; `news` of the result
\* is the caller's article after the call
Save(storage, news, fresh) ==
    LET kept == IF news.id = "" THEN [news EXCEPT !.id = fresh] ELSE news
    IN  RepoResult(TRUE,
                   [id \in DOMAIN storage \cup {kept.id} |->
                       IF id = kept.id THEN kept ELSE storage[id]],
                   kept)

\* find_by_id, lines 70-72
FindById(storage, news_id) ==
    IF news_id \in DOMAIN storage THEN storage[news_id] ELSE None

\* update that stores the article whether or not its id is stored
Update_Upsert(storage, news) ==
    RepoResult(TRUE,
               [id \in DOMAIN storage \cup {news.id} |->
                   IF id = news.id THEN news ELSE storage[id]],
               news)

\* update, lines 185-193
Update(storage, news) ==
    IF news.id \in DOMAIN storage
    THEN RepoResult(TRUE, [storage EXCEPT ![news.id] = news], news)
    ELSE RepoResult(FALSE, storage, news)

\* delete that answers True and keeps the article
Delete_Keeps(storage, news_id) ==
    IF news_id \in DOMAIN storage
    THEN RepoResult(TRUE, storage, None)
    ELSE RepoResult(FALSE, storage, None)

\* delete, lines 195-203
Delete(storage, news_id) ==
    IF news_id \in DOMAIN storage
    THEN RepoResult(TRUE, [id \in DOMAIN storage \ {news_id} |-> storage[id]],
                    None)
    ELSE RepoResult(FALSE, storage, None)

\* the ids the calls of one run can name
KnownIds == CallerIds \cup {Uuid(n) : n \in 1..(MaxRepoCalls + 2)}

\* no article has been saved under the id in this run
Untracked == News("untracked", "untracked")

\* the repository after InMemoryNewsRepository()
NewRepo ==
    [storage |-> SampleStorage,
     uuids |-> 2,                 \* calls of uuid.uuid4() so far
     calls |-> 0,
     \* per id, once saved: the article last saved or updated, None once deleted
     kept |-> [id \in KnownIds |-> Untracked],
     last |-> [op |-> "none", id |-> "", news |-> None, result |-> "none",
               found |-> None],
     before |-> SampleStorage]

----------------------------------------------------------------------------
(* The chain of save(), lines 306-318 *)

\* save() without the `return True` of line 309
AfterSheets_NoReturn(ok) == "csv"

\* save() trying the spreadsheet again after a failure
AfterSheets_Retry(ok) == IF ok THEN "idle" ELSE "sheets"

\* where save() goes after _save_to_google_sheets answered ok
AfterSheets(ok) == IF ok THEN "idle" ELSE "csv"

\* what save() reports after _save_to_csv answered ok
AfterCsv(ok) == IF ok THEN "csv" ELSE "failed"

----------------------------------------------------------------------------
(* State *)

\* sheetsAttempts, csvAttempts: calls of _save_to_google_sheets, _save_to_csv;
\* sheetsOk, csvOk: one of them returned True; sheetsCalls: remote calls sent
\* to the spreadsheet service; sheetsAppends: append_row calls for the record;
\* csvOpens: open() calls on the file; csvWrites: writerow calls carried out;
\* diagCalls: the remote calls that the diagnostic section sent; diagFailed:
\* its connection test failed; csvFault: what made _save_to_csv fail first
\* ("none" when nothing of the file system did); csvDir: the directory data/
\* existed when the file was opened; csvExisted: file_exists of line 389
NoCalls ==
    [sheetsAttempts |-> 0, sheetsOk |-> FALSE, sheetsCalls |-> 0,
     sheetsAppends |-> 0, diagCalls |-> 0, diagFailed |-> FALSE,
     csvAttempts |-> 0, csvOk |-> FALSE, csvOpens |-> 0, csvWrites |-> 0,
     csvFault |-> "none", csvDir |-> FALSE, csvExisted |-> FALSE]

\* dir: the directory data/ exists; exists: the file exists; text: what it
\* holds
AbsentFile == [dir |-> FALSE, exists |-> FALSE, text |-> <<>>]

\* os.makedirs(self.csv_dir, exist_ok=True) of __init__
MakeDirs(file) == [file EXCEPT !.dir = TRUE]

\* gs: GSPREAD_AVAILABLE, set when the module is imported (lines 11-16)
\* authOk: the authorization of lines 108-135 did not raise (when reached)
\* test: how the connection test of lines 143-172 ended, "pending" while it
\* runs, "notrun" when _init_google_sheets returned before it
NotBuilt ==
    [secrets |-> NoSecretsFile, test |-> "notrun", gs |-> FALSE,
     authOk |-> FALSE]
NoWorksheet == [exists |-> FALSE, rows |-> <<>>]

\* a worksheet "Feedback" made by an earlier call: the header and one record
UsedWorksheet ==
    [exists |-> TRUE, rows |-> <<SheetHeader, SheetRow(OldRecord)>>]

\* data/feedback.csv left by an earlier run: the header and one record
UsedFile ==
    [dir |-> TRUE, exists |-> TRUE,
     text |-> WriteRow(CsvHeader) \o WriteRow(CsvRow(OldRecord))]

\* what the service finds when it is built: nothing, or the worksheet and
\* the file of a deployment that has stored feedback before
Deployments ==
    {[sheet |-> NoWorksheet, csv |-> AbsentFile],
     [sheet |-> UsedWorksheet, csv |-> UsedFile]}

\* the answers of the issue tracker to the create-issue POST tried: created
\* (HTTP 201) and a server error
GitHubAnswers == {"201", "500"}

Init ==
    /\ pc = "new"
    /\ secrets \in SecretsTried
    /\ github \in [status : GitHubAnswers, issues : {0}]
    /\ client = FALSE
    /\ \E d \in Deployments : sheet = d.sheet /\ csv = d.csv
    /\ data = NoData
    /\ args = Submission(<<>>, <<>>, <<>>)
    /\ outcome = "none"
    /\ cnt = NoCalls
    /\ pre = [csv |-> csv, sheet |-> sheet, secrets |-> secrets]
    /\ clock = 0
    /\ csvLog = <<>>
    /\ csvClean = ~csv.exists
    /\ built = NotBuilt
    /\ writers = <<>>
    /\ disk = (IF csv.exists THEN UsedDisk ELSE AbsentDisk)
    /\ gh = NoGitHubService
    /\ shown = {}
    /\ container = NoContainer
    /\ repo = NewRepo
    /\ sessions = <<>>

----------------------------------------------------------------------------
(* Operations *)

\* the end of __init__: the connection test ended with `test`, lines 160-172
\* keep or drop the client, and line 37 makes the directory data/
ConstructEnds(test) ==
    /\ client' = InitGoogleSheets(built.gs, built.secrets, built.authOk, test)
    /\ built' = [built EXCEPT !.test = test]
    /\ csv' = MakeDirs(csv)
    /\ pc' = "idle"

\* FeedbackService(): __init__ and _init_google_sheets up to line 153.  The
\* client is assigned at line 135; with a sheet id the connection test sends
\* open_by_key and waits for it, and data/ is not made yet.
Construct ==
    /\ pc = "new"
    /\ \E gs \in BOOLEAN, authOk \in BOOLEAN :
        LET waits == Authorized(gs, secrets, authOk) /\ secrets.sheetId
        IN  /\ client' = Authorized(gs, secrets, authOk)
            /\ built' = [secrets |-> secrets,
                         test |-> IF waits THEN "pending" ELSE "notrun",
                         gs |-> gs,
                         authOk |-> authOk]
            /\ pc' = IF waits THEN "init_open" ELSE "idle"
            /\ csv' = IF waits THEN csv ELSE MakeDirs(csv)
    /\ UNCHANGED <<secrets, github, sheet, data, args, outcome, cnt, pre,
                   clock, csvLog, csvClean>>
    /\ UNCHANGED <<writers, disk, gh, shown, container, repo, sessions>>

\* line 153 returned or raised: open_by_key of the connection test
ConstructOpened ==
    /\ pc = "init_open"
    /\ \E a \in TestOutcomes :
        IF a = "ok"
        THEN pc' = "init_list" /\ UNCHANGED <<client, built, csv>>
        ELSE ConstructEnds(a)
    /\ UNCHANGED <<secrets, github, sheet, data, args, outcome, cnt, pre,
                   clock, csvLog, csvClean>>
    /\ UNCHANGED <<writers, disk, gh, shown, container, repo, sessions>>

\* line 157 returned or raised: worksheets() of the connection test
ConstructListed ==
    /\ pc = "init_list"
    /\ \E a \in TestOutcomes : ConstructEnds(a)
    /\ UNCHANGED <<secrets, github, sheet, data, args, outcome, cnt, pre,
                   clock, csvLog, csvClean>>
    /\ UNCHANGED <<writers, disk, gh, shown, container, repo, sessions>>

\* the deployment's secrets.toml is edited between two calls of save(), or while
\* the connection test of save() waits for the service (save() reads the
\* secrets again after it, lines 280 and 287, and _save_to_google_sheets
\* does at lines 327 and 333); the service keeps the client it made
EditSecrets ==
    /\ pc \in {"idle", "diag_wait"}
    /\ secrets' \in SecretsTried \ {secrets}
    /\ UNCHANGED <<pc, github, client, sheet, csv, data, args, outcome, cnt, pre,
                   clock, csvLog, csvClean>>
    /\ UNCHANGED <<built, writers, disk, gh, shown, container, repo, sessions>>

\* save(name, email, message), lines 198-211: the validation and the record
SubmitWithin(max) ==
    /\ pc = "idle"
    /\ clock < max
    /\ \E a \in Submissions :
        /\ args' = a
        /\ IF Rejected(a.name, a.email, a.message)
           THEN /\ outcome' = "invalid"
                /\ pc' = "idle"
                /\ data' = NoData
                /\ clock' = clock
           ELSE /\ outcome' = "running"
                /\ pc' = "diag"
                /\ data' = MakeData(clock + 1, a.name, a.email, a.message)
                /\ clock' = clock + 1
        /\ shown' = FirstMessages(Rejected(a.name, a.email, a.message))
    /\ cnt' = NoCalls
    /\ pre' = [csv |-> csv, sheet |-> sheet, secrets |-> secrets]
    /\ UNCHANGED <<secrets, github, client, sheet, csv, csvLog, csvClean>>
    /\ UNCHANGED <<built, writers, disk, gh, container, repo, sessions>>

Submit == SubmitWithin(MaxSubmits)

\* the end of the diagnostic section, lines 280-304, after `msgs` were
\* shown: st.secrets.get raises without a secrets.toml and nothing catches it
DiagEnds(msgs) ==
    IF secrets.avail
    THEN /\ shown' = shown \cup msgs \cup IdentifierMessages(client, secrets)
         /\ pc' = "sheets"
         /\ outcome' = outcome
    ELSE /\ shown' = shown \cup msgs
         /\ pc' = "idle"
         /\ outcome' = "raised"

\* save(), lines 213-223: the diagnostic section up to the first request of
\* its connection test, and all of it when no request is sent
Diagnostics ==
    /\ pc = "diag"
    /\ IF client /\ secrets.avail /\ secrets.sheetId
       THEN /\ shown' = shown \cup DiagFirstMessages(client, secrets)
            /\ cnt' = [cnt EXCEPT !.sheetsCalls = @ + 1, !.diagCalls = 1]
            /\ pc' = "diag_wait"
            /\ outcome' = outcome
       ELSE /\ DiagEnds(DiagFirstMessages(client, secrets)
                            \cup (IF client THEN {}
                                  ELSE NoClientMessages(built.gs, secrets)))
            /\ cnt' = cnt
    /\ UNCHANGED <<secrets, github, client, sheet, csv, data, args, pre, clock,
                   csvLog, csvClean>>
    /\ UNCHANGED <<built, writers, disk, gh, container, repo, sessions>>

\* a request of the connection test returned or raised (lines 223-234);
\* cnt.diagCalls is the number of the request waited for
DiagAnswered ==
    /\ pc = "diag_wait"
    /\ \E a \in ReadAnswers :
        IF a = "raise"
        THEN /\ DiagEnds({Msg("error", "exception")})
             /\ cnt' = [cnt EXCEPT !.diagFailed = TRUE]
        ELSE IF cnt.diagCalls < Len(DiagRequests)
        THEN /\ shown' = shown \cup DiagAnswerMessages(cnt.diagCalls)
             /\ cnt' = [cnt EXCEPT !.sheetsCalls = @ + 1, !.diagCalls = @ + 1]
             /\ pc' = pc
             /\ outcome' = outcome
        ELSE /\ DiagEnds(DiagAnswerMessages(cnt.diagCalls))
             /\ cnt' = cnt
    /\ UNCHANGED <<secrets, github, client, sheet, csv, data, args, pre, clock,
                   csvLog, csvClean>>
    /\ UNCHANGED <<built, writers, disk, gh, container, repo, sessions>>

\* _save_to_google_sheets returns False from its except clause (lines
\* 380-384) and save() goes on, the spreadsheet being left as `sh`
SheetsFails(sh) ==
    /\ sheet' = sh
    /\ shown' = shown \cup ExceptionShown
    /\ cnt' = [cnt EXCEPT !.sheetsOk = FALSE]
    /\ pc' = AfterSheets(FALSE)
    /\ outcome' = outcome

\* the request `at` returned: its notice is shown and the next request sent
SheetsGoesOn(sh, at, found) ==
    /\ sheet' = sh
    /\ shown' = shown \cup AnswerMessages(at, found)
    /\ cnt' = [cnt EXCEPT !.sheetsCalls = @ + 1,
                          !.sheetsAppends =
                              IF SheetsNext(at, found) = "sh_row" THEN @ + 1
                              ELSE @]
    /\ pc' = SheetsNext(at, found)
    /\ outcome' = outcome

\* save(), line 307: _save_to_google_sheets up to its first request (lines
\* 322-339)
TrySheets ==
    /\ pc = "sheets"
    /\ LET entry == SheetsEntry(client, secrets)
       IN  /\ shown' = shown \cup EntryMessages(entry)
           /\ IF entry = "go"
              THEN /\ cnt' = [cnt EXCEPT !.sheetsAttempts = @ + 1,
                                         !.sheetsCalls = @ + 1]
                   /\ pc' = "sh_open"
              ELSE /\ cnt' = [cnt EXCEPT !.sheetsAttempts = @ + 1,
                                         !.sheetsOk = FALSE]
                   /\ pc' = AfterSheets(FALSE)
    /\ UNCHANGED <<secrets, github, client, sheet, csv, data, args, pre, clock,
                   csvLog, csvClean, outcome>>
    /\ UNCHANGED <<built, writers, disk, gh, container, repo, sessions>>

\* line 339 returned or raised: open_by_key
SheetsOpened ==
    /\ pc = "sh_open"
    /\ \E a \in ReadAnswers :
        IF a = "ok" THEN SheetsGoesOn(sheet, "sh_open", FALSE)
        ELSE SheetsFails(sheet)
    /\ UNCHANGED <<secrets, github, client, csv, data, args, pre, clock, csvLog,
                   csvClean>>
    /\ UNCHANGED <<built, writers, disk, gh, container, repo, sessions>>

\* line 343 returned or raised: worksheets()
SheetsListed ==
    /\ pc = "sh_list"
    /\ \E a \in ReadAnswers :
        IF a = "ok" THEN SheetsGoesOn(sheet, "sh_list", FALSE)
        ELSE SheetsFails(sheet)
    /\ UNCHANGED <<secrets, github, client, csv, data, args, pre, clock, csvLog,
                   csvClean>>
    /\ UNCHANGED <<built, writers, disk, gh, container, repo, sessions>>

\* line 348 returned or raised: worksheet("Feedback"); every exception leads
\* to add_worksheet (line 350)
SheetsFound ==
    /\ pc = "sh_find"
    /\ \E a \in ReadAnswers :
        SheetsGoesOn(sheet, "sh_find", FindWorksheet(sheet, a))
    /\ UNCHANGED <<secrets, github, client, csv, data, args, pre, clock, csvLog,
                   csvClean>>
    /\ UNCHANGED <<built, writers, disk, gh, container, repo, sessions>>

\* line 352 returned or raised: add_worksheet
SheetsAdded ==
    /\ pc = "sh_add"
    /\ \E a \in RemoteAnswers :
        LET r == AddWorksheet(sheet, a)
        IN  IF r.ok THEN SheetsGoesOn(r.sheet, "sh_add", FALSE)
            ELSE SheetsFails(r.sheet)
    /\ UNCHANGED <<secrets, github, client, csv, data, args, pre, clock, csvLog,
                   csvClean>>
    /\ UNCHANGED <<built, writers, disk, gh, container, repo, sessions>>

\* line 357 returned or raised: the append_row of the header
SheetsHeaderAppended ==
    /\ pc = "sh_hdr"
    /\ \E a \in RemoteAnswers :
        LET r == AppendRow(sheet, SheetHeader, a)
        IN  IF r.ok THEN SheetsGoesOn(r.sheet, "sh_hdr", FALSE)
            ELSE SheetsFails(r.sheet)
    /\ UNCHANGED <<secrets, github, client, csv, data, args, pre, clock, csvLog,
                   csvClean>>
    /\ UNCHANGED <<built, writers, disk, gh, container, repo, sessions>>

\* line 369 returned or raised: the append_row of the record; lines 376-378
\* and 308-309 when it returned
SheetsRecordAppended ==
    /\ pc = "sh_row"
    /\ \E a \in RemoteAnswers :
        LET r == AppendRow(sheet, SheetRow(data), a)
        IN  IF r.ok
            THEN /\ sheet' = r.sheet
                 /\ shown' = shown \cup AnswerMessages("sh_row", FALSE)
                                  \cup FinalMessages("sheets")
                 /\ cnt' = [cnt EXCEPT !.sheetsOk = TRUE]
                 /\ pc' = AfterSheets(TRUE)
                 /\ outcome' = "sheets"
            ELSE SheetsFails(r.sheet)
    /\ UNCHANGED <<secrets, github, client, csv, data, args, pre, clock, csvLog,
                   csvClean>>
    /\ UNCHANGED <<built, writers, disk, gh, container, repo, sessions>>

\* line 389: file_exists = os.path.exists(self.csv_file)
CsvExists(w) ==
    /\ writers[w].pc = "exists"
    /\ writers' = [writers EXCEPT ![w].file_exists = FileExists(csv),
                                  ![w].pc = "open"]
    /\ UNCHANGED <<csv, disk>>

\* line 390: open(self.csv_file, 'a', ...); it raises by itself when the
\* directory data/ is missing, and the system can make it raise else
\* (a: what the system answers); the except of line 401 then returns False
CsvOpen(w) ==
    /\ writers[w].pc = "open"
    /\ \E a \in {"ok", "raise"} :
        LET c == [writers[w] EXCEPT !.opens = @ + 1, !.dir = csv.dir]
            r == OpenAppend(csv)
        IN  IF a = "ok" /\ r.ok
            THEN /\ csv' = r.file
                 /\ writers' =
                        [writers EXCEPT ![w] =
                            Goes([c EXCEPT !.pos = Len(csv.text),
                                           !.linked = TRUE],
                                 IF c.file_exists THEN "record" ELSE "header")]
            ELSE /\ csv' = csv
                 /\ writers' =
                        [writers EXCEPT ![w] =
                            Goes([c EXCEPT !.failed = TRUE,
                                           !.fault = IF r.ok THEN "open" ELSE @],
                                 "done")]
    /\ UNCHANGED disk

\* the write() calls on the file that the system may cut short: those of a
\* behaviour that has had fewer than MaxShortWrites of them
ShortWrites == IF disk.short < MaxShortWrites THEN 1 ELSE 0

\* the call w is at a statement that has `plan` to do on the file object,
\* or is in the middle of it.  The file object does it up to the next
\* write() on the file.  Without one the statement returns.  Else the system
\* accepts the write(), all of it or, short, the first k bytes, and the file
\* object goes on with the rest; or the write() raises, which ends the
\* statement.  The bytes go to the file the call has open, which is
\* feedback.csv unless that was removed since.
Proceed(w, plan) ==
    LET c == writers[w]
        fo == Run(IF c.f.todo = <<>> THEN [c.f EXCEPT !.todo = plan] ELSE c.f)
    IN  IF fo.todo = <<>>
        THEN /\ writers' = [writers EXCEPT ![w] = Returns([c EXCEPT !.f = fo])]
             /\ UNCHANGED <<csv, disk>>
        ELSE LET out == Outgoing(fo)
             IN  \/ \E k \in 1..Len(out) :
                      LET short == k < Len(out)
                          rest == Run(Accepted(fo, k))
                          now == [c EXCEPT !.f = rest,
                                          !.cuts = IF short THEN @ + 1 ELSE @]
                      IN  /\ short => ShortWrites = 1
                          /\ csv' = IF c.linked
                                    THEN [csv EXCEPT !.text =
                                             AppendWrite(@, Torn(out, k), c.pos)]
                                    ELSE csv
                          /\ disk' = [disk EXCEPT
                                         !.short = IF short THEN @ + 1 ELSE @]
                          /\ writers' = [writers EXCEPT ![w] =
                                            IF rest.todo = <<>> THEN Returns(now)
                                            ELSE now]
                 \/ /\ writers' = [writers EXCEPT ![w] =
                                      Raises([c EXCEPT !.f = Refused(fo)],
                                             "write")]
                    /\ UNCHANGED <<csv, disk>>

\* lines 392-393: the header, when the file did not exist at line 389
CsvWriteHeader(w) ==
    /\ writers[w].pc = "header"
    /\ Proceed(w, WriteLine(WriteRow(CsvHeader)))

\* lines 394-399: the record.  writerow raises before it writes anything
\* when the record cannot be encoded (UnicodeEncodeError); the with block
\* then closes the file.
CsvWriteRecord(w) ==
    /\ writers[w].pc = "record"
    /\ \/ /\ writers[w].f.todo = <<>>
          /\ writers' = [writers EXCEPT ![w] = Raises(@, "row")]
          /\ UNCHANGED <<csv, disk>>
       \/ Proceed(w, WriteLine(WriteRow(CsvRow(writers[w].data))))

\* the end of the with block closes the file, after an exception too:
\* close() flushes the text layer and then closes the binary layer, which
\* flushes again what a write() that raised left in its buffer.  Line 400
\* returns True when nothing raised; else the except of line 401 returns
\* False, whatever has reached the file.
CsvClose(w) ==
    /\ writers[w].pc \in {"close", "shut"}
    /\ Proceed(w, IF writers[w].pc = "close" THEN FlushAll ELSE FlushBuffer)

\* save(), lines 311-312: _save_to_csv(data) is called
TryCsv ==
    /\ pc = "csv"
    /\ pc' = "csv_run"
    /\ writers' = <<NewWriter(data)>>
    /\ cnt' = [cnt EXCEPT !.csvAttempts = @ + 1]
    /\ UNCHANGED <<secrets, github, client, sheet, csv, data, args, outcome, pre,
                   clock, csvLog, csvClean>>
    /\ UNCHANGED <<built, disk, gh, shown, container, repo, sessions>>

\* _save_to_csv (lines 386-402) takes its next step; when it has returned,
\* save() shows its last messages and returns too (lines 312-318)
SaveToCsv ==
    /\ pc = "csv_run"
    /\ \/ CsvExists(1)
       \/ CsvOpen(1)
       \/ CsvWriteHeader(1)
       \/ CsvWriteRecord(1)
       \/ CsvClose(1)
    /\ LET c == writers'[1]
       IN  /\ cnt' = [cnt EXCEPT !.csvOk = c.ok,
                                 !.csvOpens = c.opens,
                                 !.csvWrites = c.rows,
                                 !.csvFault = c.fault,
                                 !.csvDir = c.dir,
                                 !.csvExisted = c.file_exists]
           /\ IF c.pc = "done"
              THEN /\ pc' = "idle"
                   /\ outcome' = AfterCsv(c.ok)
                   /\ shown' = shown \cup FinalMessages(AfterCsv(c.ok))
                   /\ csvLog' = IF c.ok THEN Append(csvLog, CsvRow(data))
                                ELSE csvLog
                   /\ csvClean' = (csvClean /\ c.ok)
              ELSE UNCHANGED <<pc, outcome, shown, csvLog, csvClean>>
    /\ UNCHANGED <<secrets, github, client, sheet, data, args, pre, clock>>
    /\ UNCHANGED <<built, gh, container, repo, sessions>>

\* the steps of FeedbackService() and of save()
ServiceSteps ==
    \/ Construct \/ ConstructOpened \/ ConstructListed
    \/ Submit \/ Diagnostics \/ DiagAnswered
    \/ TrySheets \/ SheetsOpened \/ SheetsListed \/ SheetsFound
    \/ SheetsAdded \/ SheetsHeaderAppended \/ SheetsRecordAppended
    \/ TryCsv \/ SaveToCsv

Next == ServiceSteps \/ EditSecrets

Spec == Init /\ [][Next]_vars

----------------------------------------------------------------------------
(* The directory data/ removed while the service lives *)

\* someone removes data/ (and feedback.csv with it), between two calls of
\* save() or while save() runs, between two statements of _save_to_csv too;
\* self.csv_dir is made by __init__ only.  A call that has the file open
\* keeps it, and what it writes goes with the removed file.
RemoveDir ==
    /\ csv.dir
    /\ csv' = AbsentFile
    /\ csvClean' = FALSE
    /\ writers' = IF writers = <<>> THEN writers
                  ELSE [w \in DOMAIN writers |->
                           [writers[w] EXCEPT !.linked = FALSE]]
    /\ UNCHANGED <<pc, secrets, github, client, sheet, data, args, outcome, cnt,
                   pre, clock, csvLog>>
    /\ UNCHANGED <<built, disk, gh, shown, container, repo, sessions>>

NextDir == ServiceSteps \/ RemoveDir

SpecDir == Init /\ [][NextDir]_vars

----------------------------------------------------------------------------
(* save() when the spreadsheet service never answers *)

\* the timeout of the requests the gspread client sends: the client is made by
\* gspread.authorize(credentials) (line 135) and no timeout is ever set on it,
\* so a request waits for its answer without limit
SheetsTimeout == "none"

\* the constructor or save() has sent a request to the spreadsheet service
\* and waits for the answer
SendsRequest ==
    pc \in {"init_open", "init_list", "diag_wait", "sh_open", "sh_list",
            "sh_find", "sh_add", "sh_hdr", "sh_row"}

\* the service never answers the request: without a timeout the call does not
\* return, and the constructor or save() stays in it.  (With a timeout the
\* call would raise, which is the answer "raise".)
RemoteStuck ==
    /\ SendsRequest
    /\ SheetsTimeout = "none"
    /\ pc' = "hung"
    /\ UNCHANGED <<secrets, github, client, sheet, csv, data, args, outcome, cnt,
                   pre, clock, csvLog, csvClean>>
    /\ UNCHANGED <<built, writers, disk, gh, shown, container, repo, sessions>>

NextLive == Next \/ RemoteStuck

\* every step of save() that can be taken is taken: the script thread runs
SpecLive == Init /\ [][NextLive]_vars /\ WF_vars(NextLive)

----------------------------------------------------------------------------
(* Calls of _save_to_csv that run at the same time (one per session thread) *)

Writers == 1..NumWriters

\* the records the calls are given: a plain one and one whose message holds
\* a comma, a quote and a line break; the timestamps differ
RaceSubmissions ==
    {Submission(<<"a">>, <<"b">>, <<"c">>),
     Submission(<<"a">>, <<"b">>, <<"c", COMMA, QUOTE, LF, "d">>)}

\* the service is built and idle, the directory exists and holds `file`
ServiceOver(file) ==
    /\ pc = "idle"
    /\ secrets = EmptySecrets
    /\ github = [status |-> "500", issues |-> 0]
    /\ client = FALSE
    /\ sheet = NoWorksheet
    /\ csv = file
    /\ data = NoData
    /\ args = Submission(<<>>, <<>>, <<>>)
    /\ outcome = "none"
    /\ cnt = NoCalls
    /\ pre = [csv |-> csv, sheet |-> sheet, secrets |-> secrets]
    /\ clock = 0
    /\ csvLog = <<>>
    /\ csvClean = ~csv.exists
    /\ built = [NotBuilt EXCEPT !.secrets = EmptySecrets]
    /\ shown = {}
    /\ sessions = <<>>

ServiceIdle == ServiceOver(MakeDirs(AbsentFile))

serviceVars ==
    <<pc, secrets, github, client, sheet, csv, data, args, outcome, cnt, pre,
      clock, csvLog, csvClean, built, shown, sessions>>

\* the state of the Container class and of the news repository
libraryVars == <<container, repo>>

\* the service without a spreadsheet client: every call goes to the file
InitCsv ==
    /\ ServiceIdle
    /\ writers = <<>>
    /\ disk = AbsentDisk
    /\ gh = NoGitHubService
    /\ container = NoContainer
    /\ repo = NewRepo

SubmitAgain == SubmitWithin(MaxAppends)

NextCsv == SubmitAgain \/ Diagnostics \/ TrySheets \/ TryCsv \/ SaveToCsv

SpecCsv == InitCsv /\ [][NextCsv]_vars

\* the calls find the file absent, or the header and one record in it
InitCsvRace ==
    /\ \E d \in {AbsentDisk, UsedDisk} :
        /\ disk = d
        /\ ServiceOver(IF d = UsedDisk THEN UsedFile ELSE MakeDirs(AbsentFile))
    /\ gh = NoGitHubService
    /\ container = NoContainer
    /\ repo = NewRepo
    /\ \E subs \in [Writers -> RaceSubmissions] :
           writers = [w \in Writers |->
                         NewWriter(MakeData(w, subs[w].name, subs[w].email,
                                            subs[w].message))]

\* what the calls of _save_to_csv leave alone
callerVars ==
    <<pc, secrets, github, client, sheet, data, args, outcome, cnt, pre,
      clock, csvLog, csvClean, built, shown, sessions, gh, container, repo>>

NextCsvRace ==
    \/ \E w \in Writers : CsvExists(w) /\ UNCHANGED callerVars
    \/ \E w \in Writers : CsvOpen(w) /\ UNCHANGED callerVars
    \/ \E w \in Writers : CsvWriteHeader(w) /\ UNCHANGED callerVars
    \/ \E w \in Writers : CsvWriteRecord(w) /\ UNCHANGED callerVars
    \/ \E w \in Writers : CsvClose(w) /\ UNCHANGED callerVars

SpecCsvRace == InitCsvRace /\ [][NextCsvRace]_vars

----------------------------------------------------------------------------
(* Calls of _save_to_google_sheets that run at the same time on one          *)
(* spreadsheet (one per session thread, or per deployment of the app)        *)

Sessions == 1..NumSessions

\* what a call of _save_to_google_sheets holds: the request it waits for, its
\* argument `data`, whether worksheet("Feedback") returned the worksheet, the
\* value it returned; hdrAt, rowAt (history): the place in the worksheet its
\* header and its record went to, 0 when they did not go in
NewSession(d) ==
    [pc |-> "sh_open", data |-> d, found |-> FALSE, ok |-> FALSE,
     hdrAt |-> 0, rowAt |-> 0]

\* the service is built with a client and idle
ServiceReady ==
    /\ pc = "idle"
    /\ secrets = FullSecrets
    /\ github = [status |-> "500", issues |-> 0]
    /\ client = TRUE
    /\ csv = MakeDirs(AbsentFile)
    /\ data = NoData
    /\ args = Submission(<<>>, <<>>, <<>>)
    /\ outcome = "none"
    /\ cnt = NoCalls
    /\ pre = [csv |-> csv, sheet |-> sheet, secrets |-> secrets]
    /\ clock = 0
    /\ csvLog = <<>>
    /\ csvClean = TRUE
    /\ built = [secrets |-> FullSecrets, test |-> "ok", gs |-> TRUE,
                authOk |-> TRUE]
    /\ shown = {}

\* what the calls of _save_to_google_sheets leave alone
sheetRaceFrame ==
    <<pc, secrets, github, client, csv, data, args, outcome, cnt, pre, clock,
      csvLog, csvClean, built, shown, writers, disk, gh, libraryVars>>

InitSheetRace ==
    /\ sheet \in {NoWorksheet, UsedWorksheet}
    /\ ServiceReady
    /\ writers = <<>>
    /\ disk = AbsentDisk
    /\ gh = NoGitHubService
    /\ container = NoContainer
    /\ repo = NewRepo
    /\ sessions = [s \in Sessions |->
                      NewSession(MakeData(s, <<"a">>, <<"b">>, <<"c">>))]

\* lines 339 and 343 returned or raised: open_by_key, worksheets()
SessionRead(s) ==
    /\ sessions[s].pc \in {"sh_open", "sh_list"}
    /\ \E a \in ReadAnswers :
        sessions' = [sessions EXCEPT
                        ![s].pc = IF a = "ok" THEN SheetsNext(@, FALSE)
                                  ELSE "done"]
    /\ UNCHANGED <<sheet, sheetRaceFrame>>

\* line 348 returned or raised: worksheet("Feedback")
SessionFind(s) ==
    /\ sessions[s].pc = "sh_find"
    /\ \E a \in ReadAnswers :
        sessions' = [sessions EXCEPT
                        ![s].found = FindWorksheet(sheet, a),
                        ![s].pc = SheetsNext("sh_find", FindWorksheet(sheet, a))]
    /\ UNCHANGED <<sheet, sheetRaceFrame>>

\* line 352 returned or raised: add_worksheet
SessionAdd(s) ==
    /\ sessions[s].pc = "sh_add"
    /\ \E a \in RemoteAnswers :
        LET r == AddWorksheet(sheet, a)
        IN  /\ sheet' = r.sheet
            /\ sessions' = [sessions EXCEPT
                                ![s].pc = IF r.ok THEN SheetsNext("sh_add", FALSE)
                                          ELSE "done"]
    /\ UNCHANGED sheetRaceFrame

\* line 357 returned or raised: the append_row of the header
SessionHeader(s) ==
    /\ sessions[s].pc = "sh_hdr"
    /\ \E a \in RemoteAnswers :
        LET r == AppendRow(sheet, SheetHeader, a)
        IN  /\ sheet' = r.sheet
            /\ sessions' = [sessions EXCEPT
                                ![s].hdrAt = IF r.sheet = sheet THEN 0
                                             ELSE Len(sheet.rows) + 1,
                                ![s].pc = IF r.ok THEN SheetsNext("sh_hdr", FALSE)
                                          ELSE "done"]
    /\ UNCHANGED sheetRaceFrame

\* line 369 returned or raised: the append_row of the record; line 378
SessionRecord(s) ==
    /\ sessions[s].pc = "sh_row"
    /\ \E a \in RemoteAnswers :
        LET r == AppendRow(sheet, SheetRow(sessions[s].data), a)
        IN  /\ sheet' = r.sheet
            /\ sessions' = [sessions EXCEPT
                                ![s].rowAt = IF r.sheet = sheet THEN 0
                                             ELSE Len(sheet.rows) + 1,
                                ![s].ok = r.ok,
                                ![s].pc = "done"]
    /\ UNCHANGED sheetRaceFrame

NextSheetRace ==
    \/ \E s \in Sessions : SessionRead(s)
    \/ \E s \in Sessions : SessionFind(s)
    \/ \E s \in Sessions : SessionAdd(s)
    \/ \E s \in Sessions : SessionHeader(s)
    \/ \E s \in Sessions : SessionRecord(s)

SpecSheetRace == InitSheetRace /\ [][NextSheetRace]_vars

----------------------------------------------------------------------------
(* FeedbackService over the shapes of the service-account credentials *)

\* what a required field can hold: nothing or a real value, and for the three
\* fields the code knows a placeholder of ("your-actual-project-id",
\* "your-project" in the e-mail, "YOUR_ACTUAL_PRIVATE_KEY" in the key) that
\* placeholder; for the key also a text without the BEGIN marker; for the
\* project id a text save() alone takes for a placeholder
\* ("your-actual-project"), for the e-mail one the constructor alone does
\* ("svc@your-project.iam...") and one save() alone does
\* ("your-service@realproj.iam...")
FieldValues(f) ==
    IF f = "private_key" THEN {"", "v", "ph", "nobegin"}
    ELSE IF f = "project_id" THEN {"", "v", "ph", "phsave"}
    ELSE IF f = "client_email" THEN {"", "v", "ph", "phinit", "phsave"}
    ELSE {"", "v"}

\* the template as it is shipped: the three placeholders at once
TemplateCred ==
    [f \in RequiredFields |->
        IF f \in {"project_id", "client_email", "private_key"} THEN "ph" ELSE "v"]

\* the credentials tried: complete ones, the template, and complete ones with
\* one field changed
CredShapes ==
    {TemplateCred}
        \cup UNION {{[GoodCred EXCEPT ![f] = v] : v \in FieldValues(f)} :
                       f \in RequiredFields}

CredSecrets ==
    {EmptySecrets}
        \cup {[avail |-> TRUE, sheetId |-> id, hasCred |-> TRUE, cred |-> c,
               ghToken |-> FALSE] :
                 id \in BOOLEAN, c \in CredShapes}

InitCred ==
    /\ pc = "new"
    /\ secrets \in CredSecrets
    /\ github = [status |-> "500", issues |-> 0]
    /\ client = FALSE
    /\ sheet = NoWorksheet
    /\ csv = AbsentFile
    /\ data = NoData
    /\ args = Submission(<<>>, <<>>, <<>>)
    /\ outcome = "none"
    /\ cnt = NoCalls
    /\ pre = [csv |-> csv, sheet |-> sheet, secrets |-> secrets]
    /\ clock = 0
    /\ csvLog = <<>>
    /\ csvClean = TRUE
    /\ built = NotBuilt
    /\ writers = <<>>
    /\ disk = AbsentDisk
    /\ gh = NoGitHubService
    /\ shown = {}
    /\ container = NoContainer
    /\ repo = NewRepo
    /\ sessions = <<>>

\* the secrets stay as the constructor found them
NextCred == ServiceSteps

SpecCred == InitCred /\ [][NextCred]_vars

----------------------------------------------------------------------------
(* GitHubFeedbackService: construction, save_feedback, test_connection *)

\* the configurations tried: no secrets.toml (st.secrets.get raises), or
\* each of the three keys missing, empty, real or a placeholder
GitHubConfs ==
    {GitHubConf(FALSE, "missing", "missing", "missing")}
        \cup {GitHubConf(TRUE, t, o, n) :
                 t \in ConfValues, o \in ConfValues, n \in ConfValues}

InitGitHub ==
    /\ ServiceIdle
    /\ writers = <<>>
    /\ disk = AbsentDisk
    /\ \E c \in GitHubConfs : gh = [NoGitHubService EXCEPT !.conf = c]
    /\ container = NoContainer
    /\ repo = NewRepo

\* GitHubFeedbackService(): the three lookups of __init__ are outside any
\* try, so without a secrets.toml no object is made
GitHubConstruct ==
    /\ gh.pc = "new"
    /\ gh' = IF gh.conf.avail
             THEN [gh EXCEPT !.pc = "idle", !.svc = GitHubService(gh.conf)]
             ELSE [gh EXCEPT !.pc = "broken"]
    /\ UNCHANGED <<writers, disk, serviceVars, libraryVars>>

\* a further call can be made on the service
GitHubCallable ==
    /\ gh.pc = "idle"
    /\ gh.calls + Len(gh.waiting) < MaxGitHubCalls

\* save_feedback(name, email, message) is called: it returns False at line
\* 36 when the service is not configured, else it sends the POST of line 75
\* and waits for the answer, other threads running meanwhile
GitHubSaveFeedback ==
    /\ GitHubCallable
    /\ gh' = IF IsConfigured(gh.svc)
             THEN [gh EXCEPT !.waiting = Append(@, Waiting("save_feedback", "none"))]
             ELSE CallReturned(gh, "save_feedback", SaveFeedback(gh.svc, "none"),
                               "none")
    /\ UNCHANGED <<writers, disk, serviceVars, libraryVars>>

\* the POST of a call that waits in line 75 comes to its end on the remote
\* side: the issue is created, the tracker refuses, the transport fails, or
\* nothing comes back within the timeout; the call has not returned yet
GitHubPostCarried ==
    /\ \E i \in 1..Len(gh.waiting) : \E answer \in PostAnswers :
        /\ gh.waiting[i] = Waiting("save_feedback", "none")
        /\ gh' = [gh EXCEPT !.waiting[i].answer = answer]
        /\ github' = [status |-> answer,
                      issues |-> github.issues
                                   + (IF Created(answer) THEN 1 ELSE 0)]
    /\ UNCHANGED <<pc, secrets, client, sheet, csv, data, args, outcome, cnt, pre,
                   clock, csvLog, csvClean, built>>
    /\ UNCHANGED <<writers, disk, shown, sessions, libraryVars>>

\* requests.post returned or raised in a call of save_feedback: lines 77-91
GitHubSaveReturns ==
    /\ \E i \in 1..Len(gh.waiting) :
        LET w == gh.waiting[i]
        IN  /\ w.op = "save_feedback"
            /\ w.answer # "none"
            /\ gh' = CallReturned([gh EXCEPT !.waiting = Without(@, i)],
                                  "save_feedback",
                                  SaveFeedback(gh.svc, w.answer), w.answer)
    /\ UNCHANGED <<writers, disk, serviceVars, libraryVars>>

\* test_connection() is called: it returns False at line 96 when the
\* service is not configured, else it sends the GET of line 105 and waits
GitHubTestConnection ==
    /\ GitHubCallable
    /\ gh' = IF IsConfigured(gh.svc)
             THEN [gh EXCEPT !.waiting = Append(@, Waiting("test_connection", "none"))]
             ELSE CallReturned(gh, "test_connection",
                               TestConnection(gh.svc, "none"), "none")
    /\ UNCHANGED <<writers, disk, serviceVars, libraryVars>>

\* requests.get returned or raised in a call of test_connection: lines
\* 106-109
GitHubTestReturns ==
    /\ \E i \in 1..Len(gh.waiting) : \E answer \in GetAnswers :
        /\ gh.waiting[i].op = "test_connection"
        /\ gh' = CallReturned([gh EXCEPT !.waiting = Without(@, i)],
                              "test_connection",
                              TestConnection(gh.svc, answer), answer)
    /\ UNCHANGED <<writers, disk, serviceVars, libraryVars>>

NextGitHub ==
    \/ GitHubConstruct
    \/ GitHubSaveFeedback \/ GitHubPostCarried \/ GitHubSaveReturns
    \/ GitHubTestConnection \/ GitHubTestReturns

SpecGitHub == InitGitHub /\ [][NextGitHub]_vars

----------------------------------------------------------------------------
(* The Container class: Container() and register_service *)

feedbackVars == <<serviceVars, writers, disk, gh>>

InitContainer ==
    /\ ServiceIdle
    /\ writers = <<>>
    /\ disk = AbsentDisk
    /\ gh = NoGitHubService
    /\ container = NoContainer
    /\ repo = NewRepo

\* Container(): __new__ then __init__; the call returns the object unless
\* __init__ raises
ContainerCall ==
    /\ container.calls < MaxContainerCalls
    /\ \E k \in FailurePoints :
        LET n == container.calls + 1
            obj == ContainerNew(container.instance, n)
            r == ContainerInit(container, k)
        IN  container' =
                [container EXCEPT
                    !.instance = obj,
                    !.initialized = r.initialized,
                    !.services = r.services,
                    !.calls = n,
                    !.runs = @ + (IF r.ran THEN 1 ELSE 0),
                    !.returned = IF r.raised THEN @ ELSE @ \cup {obj},
                    !.everOk = @ \/ (r.ran /\ ~r.raised),
                    !.reruns = @ + (IF r.ran /\ container.everOk THEN 1 ELSE 0),
                    !.last = [op |-> "Container", raised |-> r.raised,
                              ran |-> r.ran, k |-> IF r.ran THEN k ELSE 0],
                    !.before = [initialized |-> container.initialized,
                                services |-> container.services]]
    /\ UNCHANGED <<feedbackVars, repo>>

\* register_service(name, instance) on the object a Container() call returned
ContainerRegister ==
    /\ container.calls < MaxContainerCalls
    /\ container.returned # {}
    /\ \E name \in ServiceNames :
        LET n == container.calls + 1
        IN  container' =
                [container EXCEPT
                    !.services = RegisterService(@, name, n),
                    !.calls = n,
                    !.registered = [@ EXCEPT ![name] = RegisteredBy(n)],
                    !.last = [op |-> "register_service", raised |-> FALSE,
                              ran |-> FALSE, k |-> 0],
                    !.before = [initialized |-> container.initialized,
                                services |-> container.services]]
    /\ UNCHANGED <<feedbackVars, repo>>

NextContainer == ContainerCall \/ ContainerRegister

SpecContainer == InitContainer /\ [][NextContainer]_vars

----------------------------------------------------------------------------
(* One InMemoryNewsRepository and the calls made on it *)

InitRepo ==
    /\ ServiceIdle
    /\ writers = <<>>
    /\ disk = AbsentDisk
    /\ gh = NoGitHubService
    /\ container = NoContainer
    /\ repo = NewRepo

Answer(ok) == IF ok THEN "True" ELSE "False"

\* repository.save(news)
RepoSave ==
    /\ repo.calls < MaxRepoCalls
    /\ \E news \in Articles :
        LET fresh == Uuid(repo.uuids + 1)
            r == Save(repo.storage, news, fresh)
        IN  repo' = [repo EXCEPT
                        !.storage = r.storage,
                        !.uuids = @ + (IF news.id = "" THEN 1 ELSE 0),
                        !.calls = @ + 1,
                        !.kept = IF r.ok THEN [@ EXCEPT ![r.news.id] = r.news]
                                 ELSE @,
                        !.last = [op |-> "save", id |-> news.id, news |-> r.news,
                                  result |-> Answer(r.ok), found |-> None],
                        !.before = repo.storage]
    /\ UNCHANGED <<feedbackVars, container>>

\* repository.update(news)
RepoUpdate ==
    /\ repo.calls < MaxRepoCalls
    /\ \E news \in Articles :
        LET r == Update(repo.storage, news)
        IN  repo' = [repo EXCEPT
                        !.storage = r.storage,
                        !.calls = @ + 1,
                        !.kept = IF r.ok /\ @[news.id] # Untracked
                                 THEN [@ EXCEPT ![news.id] = news] ELSE @,
                        !.last = [op |-> "update", id |-> news.id, news |-> news,
                                  result |-> Answer(r.ok), found |-> None],
                        !.before = repo.storage]
    /\ UNCHANGED <<feedbackVars, container>>

\* repository.delete(news_id)
RepoDelete ==
    /\ repo.calls < MaxRepoCalls
    /\ \E news_id \in KnownIds :
        LET r == Delete(repo.storage, news_id)
        IN  repo' = [repo EXCEPT
                        !.storage = r.storage,
                        !.calls = @ + 1,
                        !.kept = IF r.ok /\ @[news_id] # Untracked
                                 THEN [@ EXCEPT ![news_id] = None] ELSE @,
                        !.last = [op |-> "delete", id |-> news_id, news |-> None,
                                  result |-> Answer(r.ok), found |-> None],
                        !.before = repo.storage]
    /\ UNCHANGED <<feedbackVars, container>>

\* repository.find_by_id(news_id)
RepoFindById ==
    /\ repo.calls < MaxRepoCalls
    /\ \E news_id \in KnownIds :
        repo' = [repo EXCEPT
                    !.calls = @ + 1,
                    !.last = [op |-> "find_by_id", id |-> news_id, news |-> None,
                              result |-> "none",
                              found |-> FindById(repo.storage, news_id)],
                    !.before = repo.storage]
    /\ UNCHANGED <<feedbackVars, container>>

NextRepo == RepoSave \/ RepoUpdate \/ RepoDelete \/ RepoFindById

SpecRepo == InitRepo /\ [][NextRepo]_vars

----------------------------------------------------------------------------
(* Properties *)

\* the field without its leading and trailing whitespace: the trimming the
\* specification applies to the fields, which save() does not do
RECURSIVE LStrip(_)
LStrip(s) == IF s # <<>> /\ Head(s) = SP THEN LStrip(Tail(s)) ELSE s

RECURSIVE RStrip(_)
RStrip(s) ==
    IF s # <<>> /\ s[Len(s)] = SP THEN RStrip(SubSeq(s, 1, Len(s) - 1)) ELSE s

Strip(s) == RStrip(LStrip(s))

\* a field the specification rejects: empty or whitespace only
Blank(s) == Strip(s) = <<>>

\* a submission the specification accepts: no field is blank
SpecValid(a) == ~Blank(a.name) /\ ~Blank(a.email) /\ ~Blank(a.message)

\* a call of save() has returned or raised
Returned == pc = "idle" /\ outcome # "none"

\* FeedbackService() has returned
Constructed == pc \notin {"new", "init_open", "init_list"} /\ built.test # "pending"

\* the requests _save_to_google_sheets waits for
SheetsWaits == {"sh_open", "sh_list", "sh_find", "sh_add", "sh_hdr", "sh_row"}

\* text `a` is the beginning of text `b`
IsPrefix(a, b) == Len(a) <= Len(b) /\ SubSeq(b, 1, Len(a)) = a

\* the call of save() touched no backend
NothingTouched ==
    /\ cnt = NoCalls
    /\ csv = pre.csv
    /\ sheet = pre.sheet

\* the rows a backend holds beyond those it held when the call began
Added(rows, before) == SubSeq(rows, Len(before) + 1, Len(rows))

\* how many rows of `rows` equal r
Count(rows, r) == Cardinality({i \in 1..Len(rows) : rows[i] = r})

\* C1: a submission with an empty or whitespace-only field is rejected by the
\* validation (outcome "invalid") and reaches no backend: the diagnostic
\* section and the backends never run for it, the CSV file and the spreadsheet
\* stay as they were.
C1_BlankRejected ==
    (outcome # "none" /\ ~SpecValid(args)) =>
        (pc = "idle" /\ outcome = "invalid" /\ NothingTouched)

\* C2: for a valid submission, when the issue tracker is configured and its
\* create-issue POST answers 201, save() reports the record as stored by the
\* issue tracker and neither the spreadsheet nor the CSV backend is invoked.
C2_IssueTrackerFirst ==
    (Returned /\ SpecValid(args) /\ pre.secrets.avail /\ pre.secrets.ghToken
        /\ github.status = "201") =>
        (outcome = "github" /\ cnt.sheetsAttempts = 0 /\ cnt.csvAttempts = 0
            /\ csv = pre.csv)

\* C3: when the spreadsheet write succeeds, whatever the issue tracker would
\* have answered (a failure included), save() ends at once with the success
\* attributed to the spreadsheet, and the CSV backend is not invoked: no
\* header and no row reach the file.
C3_SheetsShortCircuits ==
    cnt.sheetsOk =>
        /\ pc = "idle"
        /\ outcome = "sheets"
        /\ cnt.csvAttempts = 0
        /\ cnt.csvOpens = 0
        /\ csv = pre.csv

\* C3 witness: a valid submission stored by the spreadsheet while the issue
\* tracker is configured and answers with a failure.
C3_Witness ==
    /\ Returned
    /\ SpecValid(args)
    /\ cnt.sheetsOk
    /\ pre.secrets.ghToken
    /\ github.status = "500"
    /\ Count(sheet.rows, SheetRow(data)) = 1

\* C4: for a valid submission for which no remote backend stored the record
\* (unconfigured or failed), the CSV backend got exactly one append call, and
\* if that append succeeded save() reports the record as stored by CSV.
C4_CsvFallback ==
    (Returned /\ SpecValid(args) /\ ~cnt.sheetsOk) =>
        (cnt.csvAttempts = 1 /\ (cnt.csvOk => outcome = "csv"))


\* the copies of the record of the last call held by the backends
SheetCopies == Count(sheet.rows, SheetRow(data))
CsvCopies == Count(Rows(csv), CsvRow(data))

\* the file is what it was when the call began, then the header if it did
\* not exist, then the line of the record
CsvAppendedOnce ==
    csv.text = pre.csv.text
                   \o (IF pre.csv.exists THEN <<>> ELSE WriteRow(CsvHeader))
                   \o WriteRow(CsvRow(data))

\* C5: whenever save() reports success, exactly one copy of the record exists
\* across the backends, written by the first backend that succeeded, and no
\* backend after it was attempted.
C5_ExactlyOneCopy ==
    (Returned /\ outcome \in {"sheets", "csv"}) =>
        /\ SheetCopies + CsvCopies = 1
        /\ outcome = "sheets" => cnt.csvAttempts = 0

\* C5 as amended: whenever save() reports success, exactly one backend
\* reported the write as successful, that backend took the record exactly
\* once (one row more in the worksheet, one line more in the file) and no
\* backend after it was attempted; the spreadsheet, tried before the CSV file
\* and reported as failed, may hold a further copy.
C5_OneReportedWriter ==
    (Returned /\ outcome \in {"sheets", "csv"}) =>
        /\ outcome = "sheets" =>
            /\ cnt.sheetsOk /\ ~cnt.csvOk
            /\ cnt.csvAttempts = 0
            /\ SheetCopies = 1 /\ csv = pre.csv
        /\ outcome = "csv" =>
            /\ cnt.csvOk /\ ~cnt.sheetsOk
            /\ CsvAppendedOnce /\ SheetCopies <= 1

\* C5 witness: save() reports the record as stored by CSV while the
\* spreadsheet holds a copy of it too.
C5_Witness ==
    Returned /\ outcome = "csv" /\ CsvCopies = 1 /\ SheetCopies = 1

\* C6: a valid submission ends stored unless the CSV write itself failed: it
\* ends as a total failure only after one failed CSV append.
C6_FailsOnlyIfCsvFails ==
    (Returned /\ SpecValid(args)) =>
        \/ outcome \in {"sheets", "csv"}
        \/ outcome = "failed" /\ cnt.csvAttempts = 1 /\ ~cnt.csvOk

\* C7: no error of a backend or of a configuration lookup leaves save() as an
\* exception.
C7_NoExceptionEscapes == outcome # "raised"

\* C8: within one call of save() each backend is attempted at most once, and
\* after a failed attempt save() moves on: past the spreadsheet to the CSV
\* file, past the CSV file to the end.
C8_AtMostOnce ==
    /\ cnt.sheetsAttempts <= 1
    /\ cnt.csvAttempts <= 1
    /\ cnt.sheetsAttempts = 1 => pc \in SheetsWaits \cup {"csv", "csv_run", "idle"}
    /\ cnt.csvAttempts = 1 => pc \in {"csv_run", "idle"}

\* C8 witness: both backends were attempted, each failed, and save() ended.
C8_Witness ==
    /\ Returned
    /\ outcome = "failed"
    /\ cnt.sheetsAttempts = 1 /\ cnt.sheetsCalls > 0
    /\ cnt.csvAttempts = 1

\* C9: one call of save() sends at most one remote call to the spreadsheet
\* service and writes to the CSV file once when the CSV backend is attempted.
C9_OneCallPerBackend ==
    Returned =>
        /\ cnt.sheetsCalls <= 1
        /\ cnt.csvAttempts = 1 => cnt.csvOpens = 1

\* C9 as amended: one call of save() sends the record's append_row to the
\* spreadsheet at most once and opens the CSV file exactly once per CSV
\* attempt, but the spreadsheet service gets up to 8 remote calls, and at
\* least 4 when its write succeeds (connection test, open, listing, lookup,
\* creation and header of a missing worksheet); a successful CSV append is one
\* writerow on an existing file and two, header and record, on a new one.
C9_CallsBounded ==
    /\ cnt.sheetsAppends <= 1
    /\ cnt.csvOpens <= cnt.csvAttempts
    /\ pc # "csv_run" => cnt.csvOpens = cnt.csvAttempts
    /\ cnt.sheetsCalls <= 8
    /\ cnt.sheetsOk => (cnt.sheetsAppends = 1 /\ cnt.sheetsCalls >= 4)
    /\ cnt.csvOk => cnt.csvWrites = (IF pre.csv.exists THEN 1 ELSE 2)

\* C9 witness: a successful spreadsheet write that took 8 remote calls.
C9_Witness == Returned /\ cnt.sheetsOk /\ cnt.sheetsCalls = 8

\* the lines csv.writer makes of the rows, one after the other
RECURSIVE WriteRows(_)
WriteRows(rows) ==
    IF rows = <<>> THEN <<>> ELSE WriteRow(Head(rows)) \o WriteRows(Tail(rows))

\* C10: as long as every append since the file was absent succeeded, the file
\* is the header followed by the records stored by CSV in submission order
\* (N + 1 rows after N appends), and while a further append is under way it
\* holds these lines and after them a beginning of the line of the new
\* record, which follows a beginning of the header in a new file; and what a
\* call adds to a file that existed is the line of its record or a beginning
\* of it, never a header.
C10_HeaderOnce ==
    /\ (csvClean /\ pc # "csv_run") =>
        (IF csv.exists THEN Rows(csv) = <<CsvHeader>> \o csvLog
                       ELSE csvLog = <<>>)
    /\ (csvClean /\ pc = "csv_run") =>
        /\ IsPrefix(csv.text,
                    WriteRows(<<CsvHeader>> \o csvLog \o <<CsvRow(data)>>))
        /\ csvLog # <<>> =>
               IsPrefix(WriteRows(<<CsvHeader>> \o csvLog), csv.text)
    /\ pre.csv.exists =>
        LET added == Added(csv.text, pre.csv.text)
        IN  added = <<>> \/ IsPrefix(added, WriteRow(CsvRow(data)))

\* C10 witness: two successful appends to a file that did not exist.
C10_Witness == csvClean /\ Len(csvLog) = 2 /\ Len(Rows(csv)) = 3

\* the rows csv.reader finds in the file
DiskRows == ReadRows(csv.text)

\* the rows that were in the file before the calls
OldRows == disk.before

\* the call w has returned True
Stored(w) == writers[w].pc = "done" /\ writers[w].ok

\* C11: under every interleaving of concurrent calls of _save_to_csv, each
\* call that returned True has exactly one whole row of its own in the file
\* (not split, not mixed with the fields of another row), and no earlier row
\* is lost.
C11_RowsWhole ==
    /\ \A w \in Writers :
        Stored(w) => Count(DiskRows, CsvRow(writers[w].data)) = 1
    /\ Len(DiskRows) >= Len(OldRows)
    /\ SubSeq(DiskRows, 1, Len(OldRows)) = OldRows

\* the line csv.writer makes of the record of the call w
LineOf(w) == WriteRow(CsvRow(writers[w].data))

\* the places of the file where the line of the call w stands in one piece
LinePlaces(w) ==
    {i \in 1..(Len(csv.text) - Len(LineOf(w)) + 1) :
        SubSeq(csv.text, i, i + Len(LineOf(w)) - 1) = LineOf(w)}

\* the bytes `line` stand in `text` from the place `from` on, in order and
\* in n pieces at most, with whatever between the pieces
RECURSIVE InPieces(_, _, _, _)
InPieces(line, text, from, n) ==
    \/ line = <<>>
    \/ /\ n > 0
       /\ \E j \in 1..Len(line) :
           \E i \in from..(Len(text) - j + 1) :
               /\ SubSeq(text, i, i + j - 1) = SubSeq(line, 1, j)
               /\ InPieces(SubSeq(line, j + 1, Len(line)), text, i + j, n - 1)

\* C11 as amended: under every interleaving of concurrent calls of
\* _save_to_csv no earlier row is lost, and the line of each call that
\* returned True is in the file, in order, in one piece more than the
\* write() calls of the call that the system accepted in part: in one piece,
\* and once, when it accepted each of them whole.  (After a write accepted in
\* part the file object writes the rest with a later write() and the call
\* still returns True; what another call wrote in between stands between the
\* two parts.)  As long as no write to the file was accepted in part, each
\* call that returned True has exactly one whole row in the file, a call
\* that returned False has one at most (close() writes again what a write()
\* that raised left in the buffer), and every row of the file is the header,
\* a record that was there before or the record of one of the calls.
C11_LinesWhole ==
    /\ \A w \in Writers :
        Stored(w) =>
            /\ InPieces(LineOf(w), csv.text, 1, 1 + writers[w].cuts)
            /\ writers[w].cuts = 0 => Cardinality(LinePlaces(w)) = 1
    /\ Len(DiskRows) >= Len(OldRows)
    /\ SubSeq(DiskRows, 1, Len(OldRows)) = OldRows
    /\ disk.short = 0 =>
        /\ \A w \in Writers :
            /\ Stored(w) => Count(DiskRows, CsvRow(writers[w].data)) = 1
            /\ Count(DiskRows, CsvRow(writers[w].data)) <= 1
        /\ \A i \in 1..Len(DiskRows) :
            \/ DiskRows[i] \in {CsvHeader, CsvRow(OldRecord)}
            \/ \E w \in Writers : DiskRows[i] = CsvRow(writers[w].data)

\* C11 witness: two calls that both returned True; the system accepted a
\* part only of a write() of the first, the second wrote before the file
\* object of the first wrote the rest, and the line of the first stands in
\* the file in two parts with bytes of the second between them.
C11_Witness ==
    /\ \A w \in Writers : Stored(w)
    /\ writers[1].cuts = 1
    /\ LinePlaces(1) = {}
    /\ LinePlaces(2) # {}
    /\ InPieces(LineOf(1), csv.text, 1, 2)

\* the last line of the file, read back by csv.reader
LastRowReadBack == << Rows(csv)[Len(Rows(csv))] >>

\* C12: for every valid submission stored by the CSV backend, reading the
\* appended row back gives four fields: the timestamp assigned at submission
\* and the trimmed name, email and message.
C12_RoundTripTrimmed ==
    (Returned /\ outcome = "csv" /\ SpecValid(args)) =>
        LastRowReadBack =
            << <<IsoFormat(clock), Strip(args.name), Strip(args.email),
                 Strip(args.message)>> >>

\* a call of save() that passed the validation is running or has ended
InCall == outcome \notin {"none", "invalid"}

\* the row carries the fields of the call and the timestamp of its record
CarriesRecord(r) ==
    /\ r[1] = IsoFormat(clock)
    /\ r[2] = args.name
    /\ r[3] = args.email
    /\ r[4] = args.message

\* the line csv.writer makes of the fields of the call and the timestamp of
\* its record
RecordLine ==
    WriteRow(<<IsoFormat(clock), args.name, args.email, args.message>>)

\* C13: from the moment save() has built the record until it ends, the
\* record is the name, email and message of the call with the one timestamp
\* taken then; the spreadsheet and the CSV file keep what they had, every row
\* a spreadsheet attempt adds (successful or reported as failed) is the
\* header or carries exactly these fields and this timestamp, and what a CSV
\* attempt adds to the file is the line of these fields and this timestamp,
\* after the header in a new file, or a beginning of that.
C13_RecordFixed ==
    InCall =>
        /\ data = MakeData(clock, args.name, args.email, args.message)
        /\ IsPrefix(pre.sheet.rows, sheet.rows)
        /\ IsPrefix(pre.csv.text, csv.text)
        /\ \A i \in 1..Len(Added(sheet.rows, pre.sheet.rows)) :
            LET r == Added(sheet.rows, pre.sheet.rows)[i]
            IN  r = SheetHeader \/ (CarriesRecord(r) /\ Len(r) = 5)
        /\ IsPrefix(Added(csv.text, pre.csv.text),
                    (IF pre.csv.exists THEN <<>> ELSE WriteRow(CsvHeader))
                        \o RecordLine)

\* C13 witness: a call of save() on a deployment that stored feedback before
\* was attempted on both backends: the spreadsheet took the row and reported
\* a failure, the CSV file took it too.
C13_Witness ==
    /\ Returned
    /\ pre.csv.exists
    /\ cnt.sheetsAttempts = 1 /\ ~cnt.sheetsOk
    /\ Len(Added(sheet.rows, pre.sheet.rows)) > 0
    /\ cnt.csvOk
    /\ Added(csv.text, pre.csv.text) = RecordLine

\* save() is past its validation and has not ended
Running ==
    \/ pc \in {"diag", "diag_wait", "sheets", "csv", "csv_run"} \cup SheetsWaits
    \/ pc = "hung" /\ built.test # "pending"

\* C14: every call of save() that has started ends, whatever the remote
\* services do, a service that never answers included.
C14_SubmitCompletes == Running ~> (pc = "idle")

\* C15: save_feedback returns True exactly when its POST was answered with
\* status 201; any other status and any network error give False; the call
\* never raises.
C15_SuccessIff201 ==
    gh.op = "save_feedback" =>
        /\ gh.result \in {"true", "false"}
        /\ gh.result = "true" <=> (gh.posts = 1 /\ Created(gh.answer))

\* a key of the GitHub configuration is missing or empty
Unset(value) == value \in {"missing", ""}

\* C16: when the token, the owner or the name is missing from the
\* configuration, save_feedback and test_connection return False without
\* sending any request.
C16_AllThreeRequired ==
    (gh.op # "none"
        /\ (Unset(gh.conf.token) \/ Unset(gh.conf.owner) \/ Unset(gh.conf.name))) =>
        (gh.result = "false" /\ gh.posts = 0 /\ gh.gets = 0)

\* the call had nothing to send a request with: no token, or an owner or a
\* name set to the empty string
NotConfigured ==
    gh.conf.token \in {"missing", ""} \/ gh.conf.owner = "" \/ gh.conf.name = ""

\* C16 as amended: save_feedback and test_connection return False without
\* sending any request exactly when the token is missing or empty or the
\* owner or the name is set to the empty string; otherwise they send one
\* request, to the repository enecpp/FINANCIALNEWSANALYZER for an owner or a
\* name that is missing, and with whatever placeholder text the keys hold.
C16_TokenRequired ==
    gh.op # "none" =>
        /\ NotConfigured => (gh.result = "false" /\ gh.posts = 0 /\ gh.gets = 0)
        /\ ~NotConfigured => gh.posts + gh.gets = 1
        /\ gh.conf.owner = "missing" => gh.svc.repo_owner = "enecpp"
        /\ gh.conf.name = "missing" => gh.svc.repo_name = "FINANCIALNEWSANALYZER"

\* C16 witness: with a token and neither owner nor name in the configuration,
\* save_feedback sent its POST to the default repository.
C16_Witness ==
    /\ gh.op = "save_feedback"
    /\ gh.conf.token = "v"
    /\ gh.conf.owner = "missing" /\ gh.conf.name = "missing"
    /\ gh.posts = 1
    /\ gh.svc.repo_owner = "enecpp"

\* a field holds a placeholder the constructor knows: the project id, the
\* key and the e-mail of the template, and any e-mail with "your-project"
KnownPlaceholder(cred) ==
    \/ \E f \in RequiredFields : cred[f] = "ph"
    \/ cred["client_email"] = "phinit"

\* the credentials lack a required field or hold a known placeholder
Lacking(s) ==
    \/ ~s.hasCred
    \/ \E f \in RequiredFields : s.cred[f] = ""
    \/ KnownPlaceholder(s.cred)

\* C17: when the credentials the constructor found lack a required field or
\* hold a known placeholder, the service holds no client and no call of
\* save() sends anything to the spreadsheet service: no remote call, and the
\* spreadsheet stays as it was.
C17_UnconfiguredNoCalls ==
    (Constructed /\ Lacking(built.secrets)) =>
        /\ ~client
        /\ cnt.sheetsCalls = 0
        /\ cnt.sheetsAppends = 0
        /\ ~cnt.sheetsOk
        /\ sheet = NoWorksheet

\* C17 witness: the e-mail of the credentials is the placeholder, everything
\* else is real; save() went past the spreadsheet backend without a remote
\* call and stored the record by CSV.
C17_Witness ==
    /\ Returned
    /\ outcome = "csv"
    /\ built.secrets.sheetId
    /\ built.secrets.cred["client_email"] = "ph"
    /\ built.secrets.cred["project_id"] = "v"
    /\ cnt.sheetsAttempts = 1
    /\ cnt.sheetsCalls = 0

\* a call of save() went through its backends and returned
Completed == Returned /\ outcome \in {"sheets", "csv", "failed"}

\* the remote calls sent by _save_to_google_sheets itself
WriteCalls == cnt.sheetsCalls - cnt.diagCalls

\* the deployment is as the constructor found it
SameSecrets == pre.secrets = built.secrets /\ secrets = built.secrets

\* C18: when the connection test of the spreadsheet backend has failed, the
\* write is still attempted exactly once in the submission: save() calls
\* _save_to_google_sheets once and it sends its request to the service.
C18_WriteStillAttempted ==
    (Completed /\ SameSecrets
        /\ built.test \in {"notfound", "permission", "other"}) =>
        (cnt.sheetsAttempts = 1 /\ WriteCalls >= 1 /\ cnt.sheetsAppends <= 1)

\* the row _save_to_google_sheets appends for the record of a call
FeedbackRow(d) == <<d.timestamp, d.name, d.email, d.message, Yeni>>

\* the calls that sent the header and were not refused
HeaderSenders == {s \in Sessions : sessions[s].hdrAt > 0}

\* C19: for every call of _save_to_google_sheets that returned True, alone or
\* while other calls run on the same spreadsheet: the worksheet "Feedback"
\* exists and holds the row [timestamp, name, email, message, status] of the
\* call exactly once; a call that found no worksheet made it and its header
\* row went in before its record row; a call that found the worksheet added
\* no header row, so that the worksheet holds one header row more per call
\* that made one.
C19_FeedbackRow ==
    /\ \A s \in Sessions :
        sessions[s].ok =>
            LET me == sessions[s]
            IN  /\ sheet.exists
                /\ Count(sheet.rows, FeedbackRow(me.data)) = 1
                /\ me.rowAt \in 1..Len(sheet.rows)
                /\ sheet.rows[me.rowAt] = FeedbackRow(me.data)
                /\ IF me.found THEN me.hdrAt = 0
                   ELSE /\ me.hdrAt \in 1..(me.rowAt - 1)
                        /\ sheet.rows[me.hdrAt] = SheetHeader
    /\ Count(sheet.rows, SheetHeader) =
           Count(pre.sheet.rows, SheetHeader) + Cardinality(HeaderSenders)

\* C19 witness: two calls returned True; one made the worksheet and waited
\* for the answer to its header while the other, which found the worksheet,
\* had its record appended: record, header, record.
C19_Witness ==
    \E s, t \in Sessions :
        /\ sessions[s].ok /\ sessions[t].ok
        /\ ~sessions[s].found /\ sessions[t].found
        /\ sessions[t].rowAt < sessions[s].hdrAt
        /\ sheet.rows[1] = FeedbackRow(sessions[t].data)

\* the call of _save_to_csv has returned and the file system had no fault
\* for it: open() did not raise with the directory in place, the record
\* could be encoded, no write() raised
Writable == Returned /\ cnt.csvAttempts = 1 /\ cnt.csvFault = "none"

\* C20: on a writable file system the CSV append succeeds even when the
\* directory data/ does not exist at the moment of the write: the write makes
\* the directory, and the header when the file is missing.
C20_DirMadeAtWrite == Writable => cnt.csvOk

\* C20 as amended: the directory data/ is made when the service is built, not
\* at the time of a write.  On a writable file system the append succeeds
\* exactly when the directory exists at the moment the file is opened (line
\* 390), and then writes the header first if the file is missing; when the
\* directory is missing at that moment the append fails and makes nothing;
\* when it is removed after that moment the append still succeeds, and the
\* record goes with the removed file.
C20_DirMadeAtConstruction ==
    /\ (Constructed /\ csvClean) => csv.dir
    /\ Writable => (cnt.csvOk <=> cnt.csvDir)
    /\ (Returned /\ cnt.csvAttempts = 1 /\ ~cnt.csvDir) =>
        (~cnt.csvOk /\ cnt.csvOpens = 1 /\ cnt.csvWrites = 0 /\ csv = AbsentFile)
    /\ (cnt.csvOk /\ ~cnt.csvExisted /\ csv.exists) =>
        Rows(csv) = <<CsvHeader, CsvRow(data)>>
    /\ (cnt.csvOk /\ ~csv.exists) => (cnt.csvDir /\ csv = AbsentFile)

\* C20 witness: the directory was there when save() was called and was
\* removed while save() waited for the spreadsheet service; the CSV backend
\* found no fault in the file system and yet the record was not stored.
C20_Witness ==
    /\ Returned
    /\ Writable
    /\ pre.csv.dir
    /\ cnt.sheetsCalls > 0
    /\ ~cnt.csvDir
    /\ outcome = "failed"
    /\ ~csv.exists

\* the directory was removed between open() and the end of the with block:
\* save() reports the record as stored by CSV and the file is not there
RemovedWhileOpen ==
    /\ Returned
    /\ outcome = "csv"
    /\ cnt.csvDir
    /\ csv = AbsentFile

\* C21: in a call of save() made without a spreadsheet client (the backend is
\* unconfigured or its connection test failed) that ends with the record in
\* the CSV file, no message of level error is put on the page.
C21_SilentSkip ==
    (Returned /\ outcome = "csv" /\ ~client) =>
        \A m \in shown : m[1] # "error"

\* what a message must not carry: the text of an exception, a traceback, the
\* spreadsheet id, the project id and the e-mail of the service account
Internal == {"exception", "traceback", "sheet_id", "project_id", "client_email"}

\* a backend was tried in the call and failed
BackendFailed ==
    \/ cnt.sheetsAttempts > 0 /\ ~cnt.sheetsOk
    \/ cnt.csvAttempts > 0 /\ ~cnt.csvOk

\* C22: in a call of save() in which a backend fails no message on the page
\* carries a traceback, the text of an exception or an identifier of the
\* configuration, and when both backends fail the only error or warning on
\* the page is the retry-later message.
C22_NoInternalDetail ==
    (Completed /\ BackendFailed) =>
        /\ \A m \in shown : m[2] \notin Internal
        /\ outcome = "failed" =>
               {m \in shown : m[1] \in {"error", "warning"}}
                   = {Msg("error", "retry_later")}

\* C23: when calls of _save_to_csv run at the same time on a file that does
\* not exist yet, the file they leave has the header row once, as its first
\* row.
C23_HeaderOnce ==
    (disk.before = <<>> /\ \A w \in Writers : writers[w].pc = "done" /\ writers[w].ok) =>
        /\ Count(DiskRows, CsvHeader) = 1
        /\ DiskRows[1] = CsvHeader

\* C24: once the service is constructed, it holds a spreadsheet client only
\* if gspread was importable, the credentials held every required field with
\* no placeholder, the private key began with the BEGIN marker, the
\* authorization did not raise, and the connection test passed, was not run
\* for want of a sheet id, or failed with "not found"; a test that failed with
\* "permission" or with any other error leaves no client; and the constructor
\* ends for every deployment (it never raises because of the spreadsheet).
C24_ClientConditions ==
    /\ pc = "new" => ENABLED Construct
    /\ pc = "init_open" => ENABLED ConstructOpened
    /\ pc = "init_list" => ENABLED ConstructListed
    /\ (Constructed /\ client) =>
           /\ built.gs
           /\ built.secrets.hasCred
           /\ \A f \in RequiredFields : built.secrets.cred[f] # ""
           /\ ~KnownPlaceholder(built.secrets.cred)
           /\ built.secrets.cred["private_key"] # "nobegin"
           /\ built.authOk
           /\ built.test \in {"ok", "notrun", "notfound"}
           /\ built.test = "notrun" => ~built.secrets.sheetId
    /\ (Constructed /\ built.test \in {"permission", "other"}) => ~client

\* C24 witness: the connection test of the constructor failed with "not
\* found" and the service holds the client.
C24_Witness ==
    /\ pc = "idle"
    /\ client
    /\ built.test = "notfound"
    /\ built.secrets.sheetId

\* C25: after any calls of Container() and register_service, every
\* Container() that returned gave the same object, _initialize_services has
\* not run again once a run of it had succeeded, and get_service gives, for
\* every name registered through register_service, the object last registered
\* under it, whatever calls of Container() came after.
C25_CreatedOnce ==
    /\ Cardinality(container.returned) <= 1
    /\ container.reruns = 0
    /\ \A name \in ServiceNames :
        container.registered[name] # Absent =>
            GetService(container.services, name) = container.registered[name]

\* C25 witness: a service was registered in place of the sentiment service
\* and Container() was called after that.
C25_Witness ==
    /\ container.last.op = "Container"
    /\ ~container.last.raised
    /\ container.registered["sentiment_service"] # Absent
    /\ container.calls = 3

\* C26: a Container() whose _initialize_services raised has raised itself
\* and left the container uninitialized, the services stored before the
\* failing statement are available and are the ones get_service returns, the
\* other names hold what they held; and every Container() made while the
\* container is uninitialized runs _initialize_services.
C26_FailedInitialization ==
    /\ (container.last.op = "Container" /\ container.last.k # 0) =>
           /\ container.last.raised
           /\ ~container.initialized
           /\ \A i \in DOMAIN InitOrder :
               IF i < container.last.k
               THEN /\ IsAvailable(container.services, InitOrder[i])
                    /\ GetService(container.services, InitOrder[i])
                           = BuiltBy(container.runs)
               ELSE container.services[InitOrder[i]]
                        = container.before.services[InitOrder[i]]
    /\ (container.last.op = "Container" /\ ~container.before.initialized) =>
           container.last.ran

\* C26 witness: a first Container() failed, the next one ran
\* _initialize_services again and failed at its third store, two services
\* stored.
C26_Witness ==
    /\ container.last.op = "Container"
    /\ container.last.raised
    /\ container.last.k = 3
    /\ container.runs = 2
    /\ GetService(container.services, "news_analysis_service") = BuiltBy(2)

\* the article find_by_id gives for the id now
Found(id) == FindById(repo.storage, id)

\* save gives an article without id an id no stored article had, and stores
\* an article with an id under that id, whatever was stored there
SaveStores ==
    repo.last.op = "save" =>
        /\ repo.last.result = "True"
        /\ repo.last.news.id # ""
        /\ Found(repo.last.news.id) = repo.last.news
        /\ IF repo.last.id = ""
           THEN repo.last.news.id \notin DOMAIN repo.before
           ELSE repo.last.news.id = repo.last.id
        /\ \A id \in DOMAIN repo.before \ {repo.last.news.id} :
            Found(id) = repo.before[id]

\* C27: for every id an article was saved under with save() returning True,
\* find_by_id gives the article stored under the id (as the last save or
\* successful update of that id left it) in every later state until
\* delete(id) returns True, and None from then until the id is saved again;
\* save gives a new id to an article whose id is empty and otherwise replaces
\* the article stored under the id.
C27_StoredUntilDeleted ==
    /\ \A id \in KnownIds :
        repo.kept[id] # Untracked => Found(id) = repo.kept[id]
    /\ SaveStores

\* C27 witness: an article was saved under "a", deleted, and find_by_id("a")
\* has just answered None.
C27_Witness ==
    /\ repo.last.op = "find_by_id"
    /\ repo.last.id = "a"
    /\ repo.last.found = None
    /\ repo.kept["a"] = None

\* the stored ids
StoredIds == DOMAIN repo.storage

\* C28: update(news) and delete(id) for an id that is not stored return False
\* and leave the storage as it was; update never adds an id; the set of
\* stored ids changes only by a save (which adds the id of the article) or by
\* a delete that returned True (which removes its id).
C28_IdsFrame ==
    /\ (repo.last.op \in {"update", "delete"}
          /\ repo.last.id \notin DOMAIN repo.before) =>
           /\ repo.last.result = "False"
           /\ repo.storage = repo.before
    /\ repo.last.op = "update" => StoredIds = DOMAIN repo.before
    /\ StoredIds # DOMAIN repo.before =>
           \/ /\ repo.last.op = "save"
              /\ StoredIds = DOMAIN repo.before \cup {repo.last.news.id}
           \/ /\ repo.last.op = "delete"
              /\ repo.last.result = "True"
              /\ StoredIds = DOMAIN repo.before \ {repo.last.id}

\* C28 witness: update was called with an article whose id is not stored,
\* after a save had added an id.
C28_Witness ==
    /\ repo.last.op = "update"
    /\ repo.last.id = "b"
    /\ repo.last.result = "False"
    /\ "a" \in StoredIds

====
